---- MODULE Spec2Model ----
(***************************************************************************)
(* Orius compute network: task dispatch (TaskQueue.getNextTask /           *)
(* getRegularTask / getCanaryTask), result submission                      *)
(* (TaskQueue.submitResult / processRegularResult / verifyCanaryResult),   *)
(* and the trust records (node_trust) they and ResultVerifier maintain.    *)
(*                                                                         *)
(* The store is PostgreSQL at READ COMMITTED.  A transaction is modelled   *)
(* by the step that takes its row locks (SELECT ... FOR UPDATE) and the    *)
(* step that commits; its writes become visible at the commit step.  A     *)
(* statement run on the pool (db.query) is one step of its own.            *)
(*                                                                         *)
(* Units: trust_score is counted in half points (200 = 100.00), credits    *)
(* in tenths (3 = 0.3).                                                    *)
(*                                                                         *)
(* Spec is the dispatch and submission machine.  SpecHash applies          *)
(* crypto.hashResult to pairs of JSON values on its own, SpecPool runs     *)
(* calls of ensureTaskPool on pools of earlier batches, and SpecClient     *)
(* runs an OriusTaskClient against the request route while canary results  *)
(* of its node come in.  SpecVerify applies ResultVerifier.verifyResult to *)
(* lists of submissions.  SpecRoutes is Spec without the ResultVerifier    *)
(* API, and SpecStrikes is SpecRoutes from a store in which a node has     *)
(* failed two canaries.  SpecProgress has three nodes that keep            *)
(* requesting and submitting, under fairness.  SpecLoops is an             *)
(* OriusTaskClient under start() and stop(), and SpecClaims is POST /claim *)
(* with POST /api/claim/process.                                           *)
(***************************************************************************)
EXTENDS Integers, Sequences, FiniteSets, TLC

\* ------------------------------------------------------------- bounds
\* tasks in the pool, and operations (requests and submissions) started
NumTasks == 2
MaxOps == 4
\* operations in progress at the same time
MaxInFlight == 2

\* -------------------------------------------------- program constants
TASK_REDUNDANCY == 3
MIN_TRUST_SCORE == 50
CANARY_BAN_THRESHOLD == 3

Devices == {"d1", "d2"}
TaskIds == 1..NumTasks
OpIds == 1..MaxOps
NULL == "NULL"
\* a NULL hash column
NoHash == << >>
\* what getCanaryTask hands to getRegularTask as deviceId: the capabilities
\* object, which matches no users.device_id
CapsObject == "[capabilities]"

\* ----------------------------------------------------- Integrity layer
\* A JSON value is a number, an array of values, or an object: a sequence of
\* <<key, value>> pairs in insertion order with distinct keys.  Keys are
\* numbered in the order Array.prototype.sort() puts them in.
Num(n) == << "num", n >>
Arr(elems) == << "arr", elems >>
Obj(pairs) == << "obj", pairs >>

\* typeof v === 'object'
IsObject(v) == v[1] \in {"arr", "obj"}

\* result payloads of the submissions
ResultAB == Obj(<< <<1, Num(10)>>, <<2, Num(20)>> >>)
ResultBA == Obj(<< <<2, Num(20)>>, <<1, Num(10)>> >>)
ResultWrong == Obj(<< <<1, Num(10)>>, <<2, Num(21)>> >>)
Results == {ResultAB, ResultBA, ResultWrong}

\* Object.keys(obj).sort(): the keys of the pairs, ascending
RECURSIVE InsertKey(_, _)
InsertKey(sorted, k) ==
  IF sorted = << >> THEN << k >>
  ELSE IF k < Head(sorted) THEN << k >> \o sorted
  ELSE << Head(sorted) >> \o InsertKey(Tail(sorted), k)

RECURSIVE SortedKeys(_)
SortedKeys(pairs) ==
  IF pairs = << >> THEN << >>
  ELSE InsertKey(SortedKeys(Tail(pairs)), Head(pairs)[1])

\* obj[key]
Get(pairs, key) ==
  pairs[CHOOSE i \in DOMAIN pairs : pairs[i][1] = key][2]

\* a slip: the keys of the top-level object are sorted, nested values are
\* left as they are
sortTopLevelOnly(obj) ==
  IF obj[1] # "obj" THEN obj
  ELSE LET keys == SortedKeys(obj[2])
       IN Obj([ i \in DOMAIN keys |-> << keys[i], Get(obj[2], keys[i]) >> ])

RECURSIVE sortObject(_)
sortObject(obj) ==
  IF ~IsObject(obj) THEN obj
  ELSE IF obj[1] = "arr"
    THEN Arr([ i \in DOMAIN obj[2] |-> sortObject(obj[2][i]) ])
    ELSE LET keys == SortedKeys(obj[2])
         IN Obj([ i \in DOMAIN keys |->
                    << keys[i], sortObject(Get(obj[2], keys[i])) >> ])

\* JSON.stringify: the text as a sequence of tokens, members in insertion order
RECURSIVE Stringify(_)
RECURSIVE StringifyElems(_)
RECURSIVE StringifyPairs(_)
Stringify(v) ==
  IF v[1] = "num" THEN << ToString(v[2]) >>
  ELSE IF v[1] = "arr" THEN << "[" >> \o StringifyElems(v[2]) \o << "]" >>
  ELSE << "{" >> \o StringifyPairs(v[2]) \o << "}" >>
StringifyElems(elems) ==
  IF elems = << >> THEN << >>
  ELSE Stringify(Head(elems))
         \o (IF Len(elems) > 1 THEN << "," >> ELSE << >>)
         \o StringifyElems(Tail(elems))
StringifyPairs(pairs) ==
  IF pairs = << >> THEN << >>
  ELSE << "key", ToString(Head(pairs)[1]), ":" >> \o Stringify(Head(pairs)[2])
         \o (IF Len(pairs) > 1 THEN << "," >> ELSE << >>)
         \o StringifyPairs(Tail(pairs))

\* String(result) of a number
String(v) == << ToString(v[2]) >>

\* the digest is injective on the text it is taken of
sha256(data) == << "sha256", data >>

hashResult(result) ==
  LET normalized == IF IsObject(result) THEN Stringify(sortObject(result))
                                        ELSE String(result)
  IN sha256(normalized)

\* crypto.hashResult(result) of the submissions' payloads
HashOfResult == [ result \in Results |-> hashResult(result) ]

\* ------------------------------------------------------ Task generator
TASK_TYPES == {"matrix_mult", "hash_compute", "ml_inference"}

\* createAndStoreTask(type, difficulty): the row it inserts.  A matrix_mult
\* or hash_compute task carries expected_output_hash, an ml_inference task
\* has none and needs a GPU.  The task expires an hour later: expires_at is
\* 1 on a clock that starts at 0.
createAndStoreTask(type, difficulty) ==
  [ task_type            |-> type,
    difficulty           |-> difficulty,
    expected_output_hash |-> IF type = "ml_inference"
                             THEN NoHash ELSE hashResult(ResultAB),
    reward_credits       |-> IF type = "matrix_mult" THEN 5 * difficulty
                             ELSE IF type = "hash_compute" THEN 3 * difficulty
                             ELSE 20 * difficulty,
    requires_gpu         |-> IF type = "matrix_mult" THEN difficulty > 3
                             ELSE type = "ml_inference",
    redundancy_count     |-> TASK_REDUNDANCY,
    status               |-> "pending",
    expires_at           |-> 1 ]

\* the pool of the dispatch machine: odd ids hash_compute, even ids
\* ml_inference, created in one batch with the default difficulty 1
TaskType(t) == IF t % 2 = 1 THEN "hash_compute" ELSE "ml_inference"

\* createCanaryTask('matrix_mult'): the one canary of the pool
CanaryIds == {1}
canary_tasks ==
  [ c \in CanaryIds |-> [ task_type         |-> "matrix_mult",
                          known_output_hash |-> hashResult(ResultAB) ] ]

\* task_uuid values a client can send: a task's, a canary's ('canary_'
\* prefix), and one of each kind that names no row (number 0)
Uuids == ({"task"} \X (0..NumTasks)) \cup ({"canary"} \X (0..1))

\* -------------------------------------------------------------- state
VARIABLES
  compute_tasks,     \* TaskIds -> task row
  task_assignments,  \* sequence of assignment rows, id = index
  users,             \* device_id -> user row (registered devices)
  earnings,          \* sequence of earnings rows
  task_results,      \* sequence of task_results rows
  node_trust,        \* device_id -> trust row (present = FALSE: no row)
  now,               \* NOW(): 0, or 1 once the pool's expires_at has passed
  ops,               \* the operations started so far and where each stands
  mismatches,        \* device -> canary mismatches recorded against its row
  lastOutcome,       \* what the latest submitResult returned
  hashed,            \* two values and the digests hashResult gave for them
  client,            \* an OriusTaskClient and the request it has sent
  verification,      \* submissions of a task and what verifyResult made of them
  taskLoops,         \* OriusTaskClient under start() and stop(): its runTaskLoop calls
  claims,            \* the claims table
  settled,           \* per claim: token transfers sent, refunds, changes of status
  claimOps           \* POST /claim and POST /api/claim/process requests

vars == << compute_tasks, task_assignments, users, earnings, task_results,
           node_trust, now, ops, mismatches, lastOutcome, hashed, client,
           verification,
           taskLoops,
           claims,
           settled,
           claimOps >>

\* an operation not started yet; a started one keeps what its later steps read
\* error: the error the request or submission was answered with, if it is
\* one of getNextTask's or the 500 of the submit route
\* trustScore: what getNodeTrustScore returned to getNextTask
IdleOp == [ pc |-> "idle", dev |-> "-", gpu |-> FALSE, argDevice |-> "-",
            argGpu |-> FALSE, task |-> 0, hash |-> NoHash, aid |-> 0,
            ms |-> 0, error |-> "-", trustScore |-> 0 ]
DoneOp == [ IdleOp EXCEPT !.pc = "done" ]

NoOutcome == [ op |-> "-", aid |-> 0, success |-> FALSE, verified |-> FALSE,
               credits_awarded |-> 0 ]

NotHashed(a, b) == [ a |-> a, b |-> b, ha |-> NoHash, hb |-> NoHash ]

\* verifyResult not called yet on the submissions
NoVerdict ==
  [ verified |-> FALSE, reason |-> "-", consensus_hash |-> "-",
    matching_count |-> 0, total_count |-> 0 ]
NotVerified(submissions) ==
  [ submissions |-> submissions, called |-> FALSE, result |-> NoVerdict ]
NoVerification == NotVerified(<< >>)

\* no response of the request route
NoReply == [ status |-> 0, success |-> FALSE, task |-> FALSE, error |-> "-" ]

\* new OriusTaskClient(apiUrl, deviceId): not running, nothing requested
\* pc: where runTaskLoop stands; route: where the route stands with the
\* client's request; requests: the task requests sent so far; reply: the
\* latest response
NewClient ==
  [ isRunning |-> FALSE, pc |-> "new", route |-> "-", requests |-> 0,
    reply |-> NoReply ]

\* a constructed OriusTaskClient: isRunning false, taskLoop null, no call of
\* runTaskLoop.  A call is at "requestTask" (awaiting the task request),
\* "await" (awaiting processTask or a delay) or "timer" (its next turn is
\* scheduled); "-" is a call that is over or not made yet.  taskLoop is the
\* call whose timer handle this.taskLoop holds, 0 for null.
MaxLoops == 3
LoopIds == 1..MaxLoops
NoTaskLoops ==
  [ isRunning |-> FALSE, taskLoop |-> 0, loop |-> [ l \in LoopIds |-> "-" ] ]

\* claims and their settlement: at most MaxClaims rows in claims, at most
\* MaxClaimOps requests of the two claim routes, at most MaxCredits credits
MaxClaims == 2
MaxClaimOps == 3
MaxCredits == 2
MIN_CLAIM_AMOUNT == 100

\* nothing sent, refunded or updated for any claim yet
NotSettled ==
  [ c \in 1..MaxClaims |-> [ transfers |-> 0, refunds |-> 0, updates |-> 0 ] ]

\* no request of the claim routes started yet; a started one keeps the
\* amount and the claim its later statements use
NoClaimOps ==
  [ r \in 1..MaxClaimOps |-> [ pc |-> "idle", amount |-> 0, claim |-> 0 ] ]

NewTrustRow ==
  [ present |-> TRUE, trust_score |-> 200, total_tasks_completed |-> 0,
    successful_tasks |-> 0, failed_tasks |-> 0, canary_failures |-> 0,
    last_failure_at |-> NULL, banned |-> FALSE, banned_at |-> NULL,
    ban_reason |-> NULL ]

NoTrustRow == [ NewTrustRow EXCEPT !.present = FALSE ]

NewUserRow ==
  [ total_earned |-> 0, claimable_balance |-> 0, total_compute_credits |-> 0 ]

\* d1 registered through POST /register (users row and node_trust row);
\* d2 bound to an existing wallet (users row only, no node_trust row yet)
Init ==
  /\ compute_tasks = [ t \in TaskIds |-> createAndStoreTask(TaskType(t), 1) ]
  /\ task_assignments = << >>
  /\ users = [ d \in Devices |-> NewUserRow ]
  /\ earnings = << >>
  /\ task_results = << >>
  /\ node_trust = [ d \in Devices |-> IF d = "d1" THEN NewTrustRow ELSE NoTrustRow ]
  /\ now = 0
  /\ ops = [ o \in OpIds |-> IdleOp ]
  /\ mismatches = [ d \in Devices |-> 0 ]
  /\ lastOutcome = NoOutcome
  /\ hashed = NotHashed(ResultAB, ResultAB)
  /\ client = NewClient
  /\ verification = NoVerification
  /\ taskLoops = NoTaskLoops
  /\ claims = << >>
  /\ settled = NotSettled
  /\ claimOps = NoClaimOps

\* operations start in slot order
InFlight == { o \in OpIds : ops[o].pc \notin {"idle", "done"} }

CanStart(o) ==
  /\ ops[o].pc = "idle"
  /\ IF o = 1 THEN TRUE ELSE ops[o - 1].pc # "idle"
  /\ Cardinality(InFlight) < MaxInFlight

Goto(o, pc) == ops' = [ ops EXCEPT ![o].pc = pc ]
Finish(o) == ops' = [ ops EXCEPT ![o] = DoneOp ]
Fail(o, error) == ops' = [ ops EXCEPT ![o] = [ DoneOp EXCEPT !.error = error ] ]

\* ---------------------------------------------------------- row locks
\* a compute_tasks row is locked from a transaction's SELECT ... FOR UPDATE
\* to its COMMIT: by a dispatch that selected it, or by a submission whose
\* join locked it
\* a slip: the SELECTs run without FOR UPDATE
RowLockedNever(t) == FALSE

RowLocked(t) ==
  \E o \in OpIds : ops[o].pc \in {"claim", "commit"} /\ ops[o].task = t

\* the users row of a submitting device is locked by the same join
UserLocked(d) ==
  \E o \in OpIds : ops[o].pc = "commit" /\ ops[o].dev = d

\* the tables a transaction writes
Store ==
  [ compute_tasks |-> compute_tasks, task_assignments |-> task_assignments,
    users |-> users, earnings |-> earnings, task_results |-> task_results,
    node_trust |-> node_trust ]

\* a slip: the statements run without a transaction, what was written stays
NoRollback(before, written) == written

\* a slip: the UPDATE of users is sent on the pool, not on the transaction's
\* client, and stays when the transaction is rolled back
RollbackKeepsUsers(before, written) == [ before EXCEPT !.users = written.users ]

\* ROLLBACK: the tables are as they were at BEGIN
Rollback(before, written) == before

\* --------------------------------------------------------- Dispatcher
AssignmentIds == DOMAIN task_assignments

ActiveStatuses == {"assigned", "processing"}
CountedStatuses == {"assigned", "processing", "completed"}

\* the rows of task t counted against its redundancy target
CountedAssignments(t) ==
  { i \in AssignmentIds : /\ task_assignments[i].task_id = t
                          /\ task_assignments[i].status \in CountedStatuses }

\* the tasks deviceId holds an active assignment for (the NOT IN subquery)
ActiveTasksOf(deviceId) ==
  { task_assignments[i].task_id :
      i \in { j \in AssignmentIds :
                /\ task_assignments[j].device_id = deviceId
                /\ task_assignments[j].status \in ActiveStatuses } }

\* a slip in the query: any open task matches, the two subqueries are left out
EligibleAnyOpenTask(t, deviceId, webgpu) ==
  /\ compute_tasks[t].status # "completed"
  /\ compute_tasks[t].expires_at > now
  /\ (webgpu \/ compute_tasks[t].requires_gpu = FALSE)

\* a slip in the query: the requires_gpu condition is left out
EligibleWithoutGpu(t, deviceId, webgpu) ==
  /\ compute_tasks[t].status = "pending"
  /\ compute_tasks[t].expires_at > now
  /\ t \notin ActiveTasksOf(deviceId)
  /\ Cardinality(CountedAssignments(t)) < compute_tasks[t].redundancy_count

\* a slip in the query: the expires_at condition is left out
EligibleWhenExpired(t, deviceId, webgpu) ==
  /\ compute_tasks[t].status = "pending"
  /\ (webgpu \/ compute_tasks[t].requires_gpu = FALSE)
  /\ t \notin ActiveTasksOf(deviceId)
  /\ Cardinality(CountedAssignments(t)) < compute_tasks[t].redundancy_count

\* the WHERE clause of getRegularTask's query
Eligible(t, deviceId, webgpu) ==
  /\ compute_tasks[t].status = "pending"
  /\ compute_tasks[t].expires_at > now
  /\ (webgpu \/ compute_tasks[t].requires_gpu = FALSE)
  /\ t \notin ActiveTasksOf(deviceId)
  /\ Cardinality(CountedAssignments(t)) < compute_tasks[t].redundancy_count

\* a slip: the query without FOR UPDATE SKIP LOCKED, a locked row is read
\* like any other
CandidatesLockedToo(deviceId, webgpu) ==
  { t \in TaskIds : Eligible(t, deviceId, webgpu) }

\* ORDER BY priority DESC, created_at ASC LIMIT 1 FOR UPDATE SKIP LOCKED:
\* all tasks have the default priority, and ids follow creation order
Candidates(deviceId, webgpu) ==
  { t \in TaskIds : Eligible(t, deviceId, webgpu) /\ ~RowLocked(t) }

FirstCandidate(deviceId, webgpu) ==
  CHOOSE t \in Candidates(deviceId, webgpu) :
    \A u \in Candidates(deviceId, webgpu) : t <= u

\* verifier.isNodeBanned
isNodeBanned(d) == node_trust[d].present /\ node_trust[d].banned

\* POST /compute/task/request up to the call of getNextTask
RequestTask(o, d, webgpu) ==
  /\ CanStart(o)
  /\ IF isNodeBanned(d)
       THEN Finish(o)
       ELSE ops' = [ ops EXCEPT ![o] = [ IdleOp EXCEPT !.pc = "getNextTask",
                                           !.dev = d, !.gpu = webgpu,
                                           !.argDevice = d,
                                           !.argGpu = webgpu ] ]
  /\ UNCHANGED << compute_tasks, task_assignments, users, earnings,
                  task_results, node_trust, now, mismatches, lastOutcome, hashed,
                  client, verification, taskLoops, claims, settled, claimOps >>

\* getNextTask after the trust check passed: Math.random() picks the branch
Admitted(o, trustScore) ==
  \E isCanary \in BOOLEAN :
    ops' = [ ops EXCEPT ![o].pc = IF isCanary THEN "getCanaryTask"
                                              ELSE "getRegularTask",
                        ![o].trustScore = trustScore ]

\* a slip: the banned flag of the row is not looked at
trustScoreIgnoringBan(row) == row.trust_score

\* getNodeTrustScore, a row was found: 0 for a banned node, else its score
trustScoreOf(row) == IF row.banned THEN 0 ELSE row.trust_score

\* getNodeTrustScore: the SELECT, and the admission check of getNextTask
\* when a row was found
GetNodeTrustScore(o) ==
  /\ ops[o].pc = "getNextTask"
  /\ LET row == node_trust[ops[o].dev]
         trustScore == trustScoreOf(row)
     IN IF ~row.present
          THEN Goto(o, "insertTrust")
          ELSE IF trustScore < 2 * MIN_TRUST_SCORE
                 THEN ops' = [ ops EXCEPT ![o] =
                                 [ DoneOp EXCEPT !.error = "Trust score too low",
                                                 !.trustScore = trustScore ] ]
                 ELSE Admitted(o, trustScore)
  /\ UNCHANGED << compute_tasks, task_assignments, users, earnings,
                  task_results, node_trust, now, mismatches, lastOutcome, hashed,
                  client, verification, taskLoops, claims, settled, claimOps >>

\* a slip: the INSERT replaces a row that is there (DO UPDATE)
insertReplacing(row) == NewTrustRow

\* INSERT INTO node_trust ... ON CONFLICT (device_id) DO NOTHING
insertIfAbsent(row) == IF row.present THEN row ELSE NewTrustRow

\* getNodeTrustScore: the INSERT, return 100
InsertNodeTrust(o) ==
  /\ ops[o].pc = "insertTrust"
  /\ node_trust' = [ node_trust EXCEPT ![ops[o].dev] = insertIfAbsent(@) ]
  /\ Admitted(o, 200)
  /\ UNCHANGED << compute_tasks, task_assignments, users, earnings,
                  task_results, now, mismatches, lastOutcome, hashed, client,
                  verification, taskLoops, claims, settled, claimOps >>

\* getCanaryTask: the types Math.random() can draw for the capabilities
canaryTypes(webgpu) ==
  IF webgpu THEN {"matrix_mult", "hash_compute"} ELSE {"hash_compute"}

\* getCanaryTask: serve a canary of the drawn type, or fall through to
\* getRegularTask(capabilities)
GetCanaryTask(o) ==
  /\ ops[o].pc = "getCanaryTask"
  /\ \E taskType \in canaryTypes(ops[o].gpu) :
       IF \E c \in CanaryIds : canary_tasks[c].task_type = taskType
         THEN Finish(o)
         ELSE ops' = [ ops EXCEPT ![o].pc = "getRegularTask",
                                  ![o].argDevice = CapsObject,
                                  ![o].argGpu = FALSE ]
  /\ UNCHANGED << compute_tasks, task_assignments, users, earnings,
                  task_results, node_trust, now, mismatches, lastOutcome, hashed,
                  client, verification, taskLoops, claims, settled, claimOps >>

\* getRegularTask: BEGIN and the SELECT ... FOR UPDATE SKIP LOCKED
SelectTask(o) ==
  /\ ops[o].pc = "getRegularTask"
  /\ IF Candidates(ops[o].argDevice, ops[o].argGpu) = {}
       THEN Finish(o)
       ELSE ops' = [ ops EXCEPT ![o] = [ IdleOp EXCEPT !.pc = "claim",
                       !.dev = ops[o].dev, !.argDevice = ops[o].argDevice,
                       !.task = FirstCandidate(ops[o].argDevice,
                                               ops[o].argGpu) ] ]
  /\ UNCHANGED << compute_tasks, task_assignments, users, earnings,
                  task_results, node_trust, now, mismatches, lastOutcome, hashed,
                  client, verification, taskLoops, claims, settled, claimOps >>

NewAssignment(t, deviceId) ==
  [ task_id |-> t, device_id |-> deviceId, user_id |-> deviceId,
    status |-> "assigned", result_hash |-> NoHash, verified |-> FALSE,
    credits_awarded |-> 0 ]

\* a slip: the UPDATE of the task's status is left out
getRegularTaskInsertOnly(t, deviceId, n) ==
  [ task_assignments |->
      IF n >= 1 THEN Append(task_assignments, NewAssignment(t, deviceId))
                ELSE task_assignments,
    compute_tasks |-> compute_tasks ]

\* the writes of getRegularTask's transaction: 1 the INSERT of the
\* assignment, 2 the UPDATE of the task's status
NumClaimWrites == 2

\* getRegularTask for a registered device: the two tables as its transaction
\* has them after the first n writes
getRegularTaskWrites(t, deviceId, n) ==
  [ task_assignments |->
      IF n >= 1 THEN Append(task_assignments, NewAssignment(t, deviceId))
                ELSE task_assignments,
    compute_tasks |->
      IF n >= 2 THEN [ compute_tasks EXCEPT ![t].status = "assigned" ]
                ELSE compute_tasks ]

\* getRegularTask: the users lookup, the INSERT, the UPDATE and the COMMIT
ClaimTask(o) ==
  /\ ops[o].pc = "claim"
  /\ LET t == ops[o].task
         deviceId == ops[o].argDevice
         written == getRegularTaskWrites(t, deviceId, NumClaimWrites)
     IN IF deviceId \notin DOMAIN users
          THEN /\ UNCHANGED << compute_tasks, task_assignments >>
               /\ Fail(o, "Device not registered")
          ELSE /\ task_assignments' = written.task_assignments
               /\ compute_tasks' = written.compute_tasks
               /\ Finish(o)
  /\ UNCHANGED << users, earnings, task_results, node_trust, now, mismatches,
                  lastOutcome, hashed, client, verification, taskLoops,
                  claims, settled, claimOps >>

\* getRegularTask, a statement after the SELECT throws when n writes are
\* done (none for an unregistered device): ROLLBACK, and the route answers 500
RollbackClaim(o) ==
  /\ ops[o].pc = "claim"
  /\ LET t == ops[o].task
         deviceId == ops[o].argDevice
     IN \E n \in IF deviceId \in DOMAIN users THEN 0..NumClaimWrites ELSE {0} :
          LET after == Rollback(
                [ task_assignments |-> task_assignments,
                  compute_tasks |-> compute_tasks ],
                getRegularTaskWrites(t, deviceId, n))
          IN /\ task_assignments' = after.task_assignments
             /\ compute_tasks' = after.compute_tasks
  /\ Finish(o)
  /\ UNCHANGED << users, earnings, task_results, node_trust, now, mismatches,
                  lastOutcome, hashed, client, verification, taskLoops,
                  claims, settled, claimOps >>

\* NOW() passes the pool's expires_at
Tick ==
  /\ now = 0
  /\ now' = now + 1
  /\ UNCHANGED << compute_tasks, task_assignments, users, earnings,
                  task_results, node_trust, ops, mismatches, lastOutcome,
                  hashed, client, verification, taskLoops, claims, settled,
                  claimOps >>

\* ------------------------------------------------------ Trust subsystem
Min(a, b) == IF a < b THEN a ELSE b
Max(a, b) == IF a > b THEN a ELSE b

\* TaskQueue.updateTrustScore: an UPDATE of the device's row (no row, no effect)
updateTrustScore(row, success) ==
  IF ~row.present THEN row
  ELSE IF success
    THEN [ row EXCEPT !.successful_tasks = @ + 1,
                      !.total_tasks_completed = @ + 1,
                      !.trust_score = Min(200, @ + 1) ]
    ELSE [ row EXCEPT !.failed_tasks = @ + 1,
                      !.total_tasks_completed = @ + 1,
                      !.trust_score = Max(0, @ - 10),
                      !.last_failure_at = "NOW" ]

\* verifyCanaryResult, canary passed
CanaryPass(row) ==
  IF ~row.present THEN row
  ELSE [ row EXCEPT !.successful_tasks = @ + 1,
                    !.trust_score = Min(200, @ + 2) ]

\* a slip: the penalty of 15 points of recordCanaryResult
CanaryFailBy15(row) ==
  IF ~row.present THEN row
  ELSE [ row EXCEPT !.canary_failures = @ + 1,
                    !.trust_score = Max(0, @ - 30),
                    !.last_failure_at = "NOW" ]

\* verifyCanaryResult, canary failed: the UPDATE
CanaryFail(row) ==
  IF ~row.present THEN row
  ELSE [ row EXCEPT !.canary_failures = @ + 1,
                    !.trust_score = Max(0, @ - 20),
                    !.last_failure_at = "NOW" ]

\* a slip: > 3 where >= 3 is meant
BanAboveThreshold(row) ==
  IF row.present /\ row.canary_failures > CANARY_BAN_THRESHOLD
    THEN [ row EXCEPT !.banned = TRUE, !.banned_at = "NOW",
                      !.ban_reason = "Multiple canary failures" ]
    ELSE row

\* verifyCanaryResult, canary failed: the SELECT and the ban UPDATE
BanIfThreshold(row) ==
  IF row.present /\ row.canary_failures >= CANARY_BAN_THRESHOLD
    THEN [ row EXCEPT !.banned = TRUE, !.banned_at = "NOW",
                      !.ban_reason = "Multiple canary failures" ]
    ELSE row

\* ResultVerifier.recordCanaryResult, passed
RecordPass(row) ==
  IF ~row.present THEN row
  ELSE [ row EXCEPT !.trust_score = Min(200, @ + 4) ]

\* a slip: the UPDATE without GREATEST(0, ...)
RecordFailUnclamped(row) ==
  IF ~row.present THEN row
  ELSE [ row EXCEPT !.trust_score = @ - 30,
                    !.canary_failures = @ + 1,
                    !.last_failure_at = "NOW" ]

\* ResultVerifier.recordCanaryResult, failed: the UPDATE
RecordFail(row) ==
  IF ~row.present THEN row
  ELSE [ row EXCEPT !.trust_score = Max(0, @ - 30),
                    !.canary_failures = @ + 1,
                    !.last_failure_at = "NOW" ]

\* ResultVerifier.banNode
banNode(row) ==
  IF ~row.present THEN row
  ELSE [ row EXCEPT !.banned = TRUE, !.banned_at = "NOW",
                    !.ban_reason = "Multiple canary verification failures",
                    !.trust_score = 0 ]

\* --------------------------------------------------- Consensus verifier
IsCanaryUuid(uuid) == uuid[1] = "canary"

\* a slip: Math.floor where Math.ceil is meant
QuorumFloor(redundancy_count) == redundancy_count \div 2

\* Math.ceil(redundancy_count / 2)
Quorum(redundancy_count) == (redundancy_count + 1) \div 2

\* a slip: the hash is compared with the top hash, not with the expected one
VerifiedAgainstTop(topHash, topCount, resultHash, expected, redundancy_count) ==
  IF topHash = resultHash
    THEN IF expected # NoHash
           THEN resultHash = topHash
           ELSE topCount >= Quorum(redundancy_count)
    ELSE FALSE

\* a slip: without expected hash, having the top hash is enough
VerifiedWithoutQuorum(topHash, topCount, resultHash, expected, redundancy_count) ==
  IF topHash = resultHash
    THEN IF expected # NoHash
           THEN resultHash = expected
           ELSE TRUE
    ELSE FALSE

\* processRegularResult, lines 204-210
Verified(topHash, topCount, resultHash, expected, redundancy_count) ==
  IF topHash = resultHash
    THEN IF expected # NoHash
           THEN resultHash = expected
           ELSE topCount >= Quorum(redundancy_count)
    ELSE FALSE

\* a slip: finalization at the first completed submission
FinalizesOnFirst(totalSubmissions, redundancy_count) == totalSubmissions >= 1

\* a slip: finalization as soon as half the target (rounded down) is in
FinalizesAtHalf(totalSubmissions, redundancy_count) ==
  totalSubmissions >= redundancy_count \div 2

\* processRegularResult, line 235
Finalizes(totalSubmissions, redundancy_count) ==
  totalSubmissions >= redundancy_count

\* ------------------------------------------------------- submit route
\* executionTimeMs values a client sends: below every minimum, between the
\* minimum of hash_compute and that of ml_inference, and between the maximum
\* of a hash_compute task of difficulty 1 and that of an ml_inference task
ExecutionTimes == {1, 50, 4000}

\* the members of the result the route reads: result.difficulty and
\* result.task_type (the payloads of the tasks' computations have neither)
KeyDifficulty == 3
KeyTaskType == 4

\* result[key] || default
Field(result, key, default) ==
  IF result[1] = "obj" /\ key \in { result[2][i][1] : i \in DOMAIN result[2] }
    THEN Get(result[2], key)[2]
    ELSE default

\* ResultVerifier.verifyExecutionTime
expectedRange(taskType, difficulty) ==
  IF taskType = "matrix_mult" THEN [ min |-> 10, max |-> 5000 * difficulty ]
  ELSE IF taskType = "hash_compute" THEN [ min |-> 5, max |-> 3000 * difficulty ]
  ELSE IF taskType = "ml_inference" THEN [ min |-> 100, max |-> 15000 * difficulty ]
  ELSE [ min |-> 10, max |-> 30000 ]

verifyExecutionTime(taskType, executionTimeMs, difficulty) ==
  LET range == expectedRange(taskType, difficulty)
  IN IF executionTimeMs < range.min
       THEN [ valid |-> FALSE,
              reason |-> "Execution too fast - possible pre-computation" ]
       ELSE IF executionTimeMs > range.max
         THEN [ valid |-> FALSE, reason |-> "Execution too slow - timeout risk" ]
         ELSE [ valid |-> TRUE, reason |-> "-" ]

\* POST /compute/task/submit: verifyExecutionTime, before submitResult is called
timeCheck(result, executionTimeMs) ==
  verifyExecutionTime(Field(result, KeyTaskType, "unknown"), executionTimeMs,
                      Field(result, KeyDifficulty, 1))

\* POST /compute/task/submit turned down by verifyExecutionTime: status 400
RejectSubmission(o, result, executionTimeMs) ==
  /\ CanStart(o)
  /\ ~timeCheck(result, executionTimeMs).valid
  /\ Finish(o)
  /\ UNCHANGED << compute_tasks, task_assignments, users, earnings,
                  task_results, node_trust, now, mismatches, lastOutcome,
                  hashed, client, verification, taskLoops, claims, settled,
                  claimOps >>

\* TaskQueue.submitResult with a canary identifier: verifyCanaryResult
SubmitCanaryResult(o, d, uuid, result, executionTimeMs) ==
  /\ CanStart(o)
  /\ timeCheck(result, executionTimeMs).valid
  /\ IsCanaryUuid(uuid)
  /\ Finish(o)
  /\ LET resultHash == HashOfResult[result]
         c == uuid[2]
     IN IF c \notin CanaryIds
          THEN /\ lastOutcome' = [ NoOutcome EXCEPT !.op = "canary" ]
               /\ UNCHANGED << node_trust, mismatches >>
          ELSE LET passed == resultHash = canary_tasks[c].known_output_hash
               IN /\ node_trust' = [ node_trust EXCEPT ![d] =
                         IF passed THEN CanaryPass(@)
                                   ELSE BanIfThreshold(CanaryFail(@)) ]
                  /\ mismatches' = [ mismatches EXCEPT ![d] =
                         IF ~passed /\ node_trust[d].present THEN @ + 1 ELSE @ ]
                  /\ lastOutcome' = [ NoOutcome EXCEPT !.op = "canary",
                         !.success = TRUE, !.verified = passed,
                         !.credits_awarded = IF passed THEN 5 ELSE 0 ]
  /\ UNCHANGED << compute_tasks, task_assignments, users, earnings,
                  task_results, now, hashed, client, verification, taskLoops,
                  claims, settled, claimOps >>

\* a slip in the join: the rows of the task, of any device
AnyAssignments(t, d) ==
  { i \in DOMAIN task_assignments : task_assignments[i].task_id = t }

\* the caller's assignment rows for the task (the join of line 162)
OwnAssignments(t, d) ==
  { i \in AssignmentIds : /\ task_assignments[i].task_id = t
                          /\ task_assignments[i].device_id = d }

\* TaskQueue.submitResult with a task identifier: processRegularResult up to
\* its SELECT ... FOR UPDATE, which waits for the rows it locks
SubmitRegularResult(o, d, uuid, result, executionTimeMs) ==
  /\ CanStart(o)
  /\ timeCheck(result, executionTimeMs).valid
  /\ ~IsCanaryUuid(uuid)
  /\ LET t == uuid[2]
         resultHash == HashOfResult[result]
     IN IF OwnAssignments(t, d) = {}
          THEN /\ Finish(o)
               /\ lastOutcome' = [ NoOutcome EXCEPT !.op = "regular" ]
          ELSE /\ ~RowLocked(t)
               /\ ~UserLocked(d)
               /\ \E a \in OwnAssignments(t, d) :
                    ops' = [ ops EXCEPT ![o] = [ IdleOp EXCEPT !.pc = "commit",
                               !.dev = d, !.task = t, !.hash = resultHash,
                               !.aid = a, !.ms = executionTimeMs ] ]
               /\ UNCHANGED lastOutcome
  /\ UNCHANGED << compute_tasks, task_assignments, users, earnings,
                  task_results, node_trust, now, mismatches, hashed, client,
                  verification, taskLoops, claims, settled, claimOps >>

\* allResults: the completed rows of the task grouped by result_hash,
\* ORDER BY count DESC; any hash of the highest count may come first
CompletedIn(rows, t) ==
  { i \in DOMAIN rows : rows[i].task_id = t /\ rows[i].status = "completed" }
CountIn(rows, t, h) ==
  Cardinality({ i \in CompletedIn(rows, t) : rows[i].result_hash = h })
TopResults(rows, t) ==
  LET hashes == { rows[i].result_hash : i \in CompletedIn(rows, t) }
  IN { h \in hashes : \A g \in hashes : CountIn(rows, t, h) >= CountIn(rows, t, g) }

\* the row of the submission after the UPDATE of lines 179-187
Recorded(o) ==
  [ task_assignments EXCEPT ![ops[o].aid].status = "completed",
                            ![ops[o].aid].result_hash = ops[o].hash ]

\* a slip: the reward is taken whether or not the submission is verified
AwardAlways(verified, reward_credits) == reward_credits

\* creditsAwarded: 0 unless verified
AwardCredits(verified, reward_credits) ==
  IF verified THEN reward_credits ELSE 0

\* the writes of processRegularResult's transaction, in the order of the code:
\* 1 the submission, 2 the verified flag, 3 the user's balances, 4 the
\* earnings row, 5 the trust score, 6 the task's status, 7 the task_results row
NumWrites == 7

\* processRegularResult after its SELECT: the tables as its transaction has
\* them after the first n writes, with topResult = top
processRegularResult(o, top, n) ==
  LET a == ops[o].aid
      t == ops[o].task
      d == ops[o].dev
      resultHash == ops[o].hash
      task == compute_tasks[t]
      recorded == Recorded(o)
      totalSubmissions == Cardinality(CompletedIn(recorded, t))
      verified == Verified(top, CountIn(recorded, t, top), resultHash,
                           task.expected_output_hash, task.redundancy_count)
      creditsAwarded == AwardCredits(verified, task.reward_credits)
      uid == task_assignments[a].user_id
      finalizes == Finalizes(totalSubmissions, task.redundancy_count)
  IN [ task_assignments |->
         IF n >= 2 /\ verified
           THEN [ recorded EXCEPT ![a].verified = TRUE,
                                  ![a].credits_awarded = creditsAwarded ]
           ELSE IF n >= 1 THEN recorded ELSE task_assignments,
       users |->
         IF n >= 3 /\ verified
           THEN [ users EXCEPT
                    ![uid].total_compute_credits = @ + creditsAwarded,
                    ![uid].claimable_balance = @ + creditsAwarded,
                    ![uid].total_earned = @ + creditsAwarded ]
           ELSE users,
       earnings |->
         IF n >= 4 /\ verified
           THEN Append(earnings, [ user_id |-> uid,
                                   earned_amount |-> creditsAwarded,
                                   earning_type |-> "compute",
                                   task_id |-> t ])
           ELSE earnings,
       node_trust |->
         IF n >= 5 /\ verified
           THEN [ node_trust EXCEPT ![d] = updateTrustScore(@, TRUE) ]
           ELSE node_trust,
       compute_tasks |->
         IF n >= 6 /\ finalizes
           THEN [ compute_tasks EXCEPT ![t].status = "completed" ]
           ELSE compute_tasks,
       task_results |->
         IF n >= 7 /\ finalizes
           THEN Append(task_results,
                  [ task_id |-> t, consensus_hash |-> top,
                    total_submissions |-> totalSubmissions,
                    matching_submissions |-> CountIn(recorded, t, top),
                    consensus_reached |-> verified ])
           ELSE task_results,
       verified |-> verified,
       credits_awarded |-> creditsAwarded ]

\* processRegularResult from the UPDATE of the assignment to the COMMIT
CommitRegularResult(o) ==
  /\ ops[o].pc = "commit"
  /\ \E top \in TopResults(Recorded(o), ops[o].task) :
       LET written == processRegularResult(o, top, NumWrites)
       IN /\ task_assignments' = written.task_assignments
          /\ users' = written.users
          /\ earnings' = written.earnings
          /\ node_trust' = written.node_trust
          /\ compute_tasks' = written.compute_tasks
          /\ task_results' = written.task_results
          /\ lastOutcome' = [ op |-> "regular", aid |-> ops[o].aid,
                              success |-> TRUE,
                              verified |-> written.verified,
                              credits_awarded |-> written.credits_awarded ]
  /\ Finish(o)
  /\ UNCHANGED << now, mismatches, hashed, client, verification, taskLoops, claims,
                  settled, claimOps >>

\* processRegularResult, a statement after the SELECT throws when n writes
\* are done: ROLLBACK, and the route answers 500
RollbackRegularResult(o) ==
  /\ ops[o].pc = "commit"
  /\ \E top \in TopResults(Recorded(o), ops[o].task), n \in 0..NumWrites :
       LET written == processRegularResult(o, top, n)
           after == Rollback(Store, written)
       IN /\ task_assignments' = after.task_assignments
          /\ users' = after.users
          /\ earnings' = after.earnings
          /\ node_trust' = after.node_trust
          /\ compute_tasks' = after.compute_tasks
          /\ task_results' = after.task_results
  /\ Fail(o, "Failed to submit result")
  /\ UNCHANGED << now, mismatches, lastOutcome, hashed, client, verification,
                  taskLoops, claims, settled, claimOps >>

\* ------------------------------------------------ ResultVerifier (API)
\* checkCanaryResult: the canary lookup and recordCanaryResult's UPDATE
CheckCanaryResult(o, d, uuid, result) ==
  /\ CanStart(o)
  /\ IsCanaryUuid(uuid)
  /\ uuid[2] \in CanaryIds
  /\ LET passed == HashOfResult[result] = canary_tasks[uuid[2]].known_output_hash
     IN /\ node_trust' = [ node_trust EXCEPT ![d] =
               IF passed THEN RecordPass(@) ELSE RecordFail(@) ]
        /\ IF passed
             THEN Finish(o)
             ELSE ops' = [ ops EXCEPT ![o] = [ IdleOp EXCEPT !.pc = "recordSelect",
                                                 !.dev = d ] ]
        /\ mismatches' = [ mismatches EXCEPT ![d] =
               IF ~passed /\ node_trust[d].present THEN @ + 1 ELSE @ ]
  /\ UNCHANGED << compute_tasks, task_assignments, users, earnings,
                  task_results, now, lastOutcome, hashed, client,
                  verification, taskLoops, claims, settled, claimOps >>

\* recordCanaryResult: the SELECT of canary_failures
RecordCanarySelect(o) ==
  /\ ops[o].pc = "recordSelect"
  /\ LET row == node_trust[ops[o].dev]
     IN IF row.present /\ row.canary_failures >= CANARY_BAN_THRESHOLD
          THEN Goto(o, "banNode")
          ELSE Finish(o)
  /\ UNCHANGED << compute_tasks, task_assignments, users, earnings,
                  task_results, node_trust, now, mismatches, lastOutcome, hashed,
                  client, verification, taskLoops, claims, settled, claimOps >>

\* recordCanaryResult: the call of banNode
BanNode(o) ==
  /\ ops[o].pc = "banNode"
  /\ node_trust' = [ node_trust EXCEPT ![ops[o].dev] = banNode(@) ]
  /\ Finish(o)
  /\ UNCHANGED << compute_tasks, task_assignments, users, earnings,
                  task_results, now, mismatches, lastOutcome, hashed, client,
                  verification, taskLoops, claims, settled, claimOps >>

\* ------------------------------------------------------ specification
\* the slot the next operation starts in
FreeSlot == { o \in OpIds : CanStart(o) }

Next ==
  \/ \E o \in FreeSlot, d \in Devices, webgpu \in BOOLEAN : RequestTask(o, d, webgpu)
  \/ \E o \in OpIds : GetNodeTrustScore(o)
  \/ \E o \in OpIds : InsertNodeTrust(o)
  \/ \E o \in OpIds : GetCanaryTask(o)
  \/ \E o \in OpIds : SelectTask(o)
  \/ \E o \in OpIds : ClaimTask(o)
  \/ \E o \in OpIds : RollbackClaim(o)
  \/ Tick
  \/ \E o \in FreeSlot, result \in Results, executionTimeMs \in ExecutionTimes :
       RejectSubmission(o, result, executionTimeMs)
  \/ \E o \in FreeSlot, d \in Devices, uuid \in Uuids, result \in Results,
          executionTimeMs \in ExecutionTimes :
       SubmitCanaryResult(o, d, uuid, result, executionTimeMs)
  \/ \E o \in FreeSlot, d \in Devices, uuid \in Uuids, result \in Results,
          executionTimeMs \in ExecutionTimes :
       SubmitRegularResult(o, d, uuid, result, executionTimeMs)
  \/ \E o \in OpIds : CommitRegularResult(o)
  \/ \E o \in OpIds : RollbackRegularResult(o)
  \/ \E o \in FreeSlot, d \in Devices, uuid \in Uuids, result \in Results :
       CheckCanaryResult(o, d, uuid, result)
  \/ \E o \in OpIds : RecordCanarySelect(o)
  \/ \E o \in OpIds : BanNode(o)

Spec == Init /\ [][Next]_vars

\* the request and submit routes alone: getNextTask, submitResult and
\* registerNodeCapabilities, without the ResultVerifier API
NextRoutes ==
  \/ \E o \in FreeSlot, d \in Devices, webgpu \in BOOLEAN : RequestTask(o, d, webgpu)
  \/ \E o \in OpIds : GetNodeTrustScore(o)
  \/ \E o \in OpIds : InsertNodeTrust(o)
  \/ \E o \in OpIds : GetCanaryTask(o)
  \/ \E o \in OpIds : SelectTask(o)
  \/ \E o \in OpIds : ClaimTask(o)
  \/ \E o \in OpIds : RollbackClaim(o)
  \/ Tick
  \/ \E o \in FreeSlot, result \in Results, executionTimeMs \in ExecutionTimes :
       RejectSubmission(o, result, executionTimeMs)
  \/ \E o \in FreeSlot, d \in Devices, uuid \in Uuids, result \in Results,
          executionTimeMs \in ExecutionTimes :
       SubmitCanaryResult(o, d, uuid, result, executionTimeMs)
  \/ \E o \in FreeSlot, d \in Devices, uuid \in Uuids, result \in Results,
          executionTimeMs \in ExecutionTimes :
       SubmitRegularResult(o, d, uuid, result, executionTimeMs)
  \/ \E o \in OpIds : CommitRegularResult(o)
  \/ \E o \in OpIds : RollbackRegularResult(o)

SpecRoutes == Init /\ [][NextRoutes]_vars

\* the routes from a later state of the store: d1 has failed two canaries
\* (two runs of verifyCanaryResult with a wrong hash)
InitStrikes ==
  /\ compute_tasks = [ t \in TaskIds |-> createAndStoreTask(TaskType(t), 1) ]
  /\ task_assignments = << >>
  /\ users = [ d \in Devices |-> NewUserRow ]
  /\ earnings = << >>
  /\ task_results = << >>
  /\ node_trust = [ d \in Devices |->
                      IF d = "d1" THEN CanaryFail(CanaryFail(NewTrustRow))
                                  ELSE NoTrustRow ]
  /\ now = 0
  /\ ops = [ o \in OpIds |-> IdleOp ]
  /\ mismatches = [ d \in Devices |-> IF d = "d1" THEN 2 ELSE 0 ]
  /\ lastOutcome = NoOutcome
  /\ hashed = NotHashed(ResultAB, ResultAB)
  /\ client = NewClient
  /\ verification = NoVerification
  /\ taskLoops = NoTaskLoops
  /\ claims = << >>
  /\ settled = NotSettled
  /\ claimOps = NoClaimOps

SpecStrikes == InitStrikes /\ [][NextRoutes]_vars

\* ------------------------------------------------- hashResult on its own
\* values to hash: numbers, objects that differ in key order, in a key or in
\* a value, arrays that differ in element order, objects inside arrays and
\* arrays inside objects
O12 == Obj(<< <<1, Num(1)>>, <<2, Num(2)>> >>)
O21 == Obj(<< <<2, Num(2)>>, <<1, Num(1)>> >>)
O12Swapped == Obj(<< <<1, Num(2)>>, <<2, Num(1)>> >>)
O13 == Obj(<< <<1, Num(1)>>, <<3, Num(2)>> >>)
O1 == Obj(<< <<1, Num(1)>> >>)

HashInputs ==
  { Num(1), Num(2), O12, O21, O12Swapped, O13, O1,
    Arr(<< Num(1), Num(2) >>), Arr(<< Num(2), Num(1) >>),
    Arr(<< O12, Num(1) >>), Arr(<< O21, Num(1) >>), Arr(<< Num(1), O12 >>),
    Arr(<< O12Swapped, Num(1) >>),
    Obj(<< <<1, O12>>, <<2, Arr(<< O21, O12 >>)>> >>),
    Obj(<< <<2, Arr(<< O12, O21 >>)>>, <<1, O21>> >>),
    Obj(<< <<1, O12>>, <<2, Arr(<< O13, O12 >>)>> >>),
    Obj(<< <<1, Arr(<< O21, O12 >>)>>, <<2, O12>> >>) }

InitHash ==
  /\ hashed \in { NotHashed(a, b) : a, b \in HashInputs }
  /\ compute_tasks = [ t \in TaskIds |-> createAndStoreTask(TaskType(t), 1) ]
  /\ task_assignments = << >>
  /\ users = [ d \in Devices |-> NewUserRow ]
  /\ earnings = << >>
  /\ task_results = << >>
  /\ node_trust = [ d \in Devices |-> IF d = "d1" THEN NewTrustRow ELSE NoTrustRow ]
  /\ now = 0
  /\ ops = [ o \in OpIds |-> IdleOp ]
  /\ mismatches = [ d \in Devices |-> 0 ]
  /\ lastOutcome = NoOutcome
  /\ client = NewClient
  /\ verification = NoVerification
  /\ taskLoops = NoTaskLoops
  /\ claims = << >>
  /\ settled = NotSettled
  /\ claimOps = NoClaimOps

\* hashResult applied to both values
HashResults ==
  /\ hashed.ha = NoHash
  /\ hashed' = [ hashed EXCEPT !.ha = hashResult(hashed.a),
                               !.hb = hashResult(hashed.b) ]
  /\ UNCHANGED << compute_tasks, task_assignments, users, earnings,
                  task_results, node_trust, now, ops, mismatches, lastOutcome,
                  client, verification, taskLoops, claims, settled, claimOps >>

NextHash == HashResults

SpecHash == InitHash /\ [][NextHash]_vars

\* ---------------------------------------------- ensureTaskPool on its own
\* calls of ensureTaskPool(minTasks), and the rows the pool starts with
NumCalls == 2
minTasks == 1
MaxPool == 2

Calls == 1..NumCalls
Difficulties == 1..3

\* the types ensureTaskPool's loop goes through
GeneratedTypes == {"matrix_mult", "hash_compute"}

\* rows of earlier batches: pending or assigned, expired or not
PoolRows ==
  { [ createAndStoreTask(type, 1) EXCEPT !.status = st, !.expires_at = e ] :
      type \in TASK_TYPES, st \in {"pending", "assigned"}, e \in {0, 1} }

Pools == UNION { [ 1..n -> PoolRows ] : n \in 0..MaxPool }

IdleCall == [ pc |-> "idle", needed |-> [ type \in GeneratedTypes |-> 0 ] ]

InitPool ==
  /\ compute_tasks \in Pools
  /\ ops = [ c \in Calls |-> IdleCall ]
  /\ task_assignments = << >>
  /\ users = [ d \in Devices |-> NewUserRow ]
  /\ earnings = << >>
  /\ task_results = << >>
  /\ node_trust = [ d \in Devices |-> IF d = "d1" THEN NewTrustRow ELSE NoTrustRow ]
  /\ now = 0
  /\ mismatches = [ d \in Devices |-> 0 ]
  /\ lastOutcome = NoOutcome
  /\ hashed = NotHashed(ResultAB, ResultAB)
  /\ client = NewClient
  /\ verification = NoVerification
  /\ taskLoops = NoTaskLoops
  /\ claims = << >>
  /\ settled = NotSettled
  /\ claimOps = NoClaimOps

\* the count of the SELECT ... GROUP BY task_type for one type
PendingCount(pool, type) ==
  Cardinality({ i \in DOMAIN pool : /\ pool[i].task_type = type
                                     /\ pool[i].status = "pending"
                                     /\ pool[i].expires_at > now })

\* ensureTaskPool: the SELECT and the loop that computes `needed` per type;
\* with nothing to create the call returns 0
EnsureTaskPoolSelect(c) ==
  /\ ops[c].pc = "idle"
  /\ LET needed == [ type \in GeneratedTypes |->
                       Max(0, minTasks - PendingCount(compute_tasks, type)) ]
     IN ops' = [ ops EXCEPT ![c] =
                   [ pc |-> IF \A type \in GeneratedTypes : needed[type] = 0
                              THEN "done" ELSE "insert",
                     needed |-> needed ] ]
  /\ UNCHANGED << compute_tasks, task_assignments, users, earnings,
                  task_results, node_trust, now, mismatches, lastOutcome,
                  hashed, client, verification, taskLoops, claims, settled,
                  claimOps >>

\* n tasks of one type, each with a difficulty drawn from 1..3
NewTasks(type, difficulties) ==
  [ i \in DOMAIN difficulties |-> createAndStoreTask(type, difficulties[i]) ]

\* ensureTaskPool: the INSERTs of the createAndStoreTask calls (Promise.all)
EnsureTaskPoolInsert(c) ==
  /\ ops[c].pc = "insert"
  /\ \E dm \in [ 1..ops[c].needed["matrix_mult"] -> Difficulties ],
        dh \in [ 1..ops[c].needed["hash_compute"] -> Difficulties ] :
       compute_tasks' = compute_tasks \o NewTasks("matrix_mult", dm)
                                      \o NewTasks("hash_compute", dh)
  /\ ops' = [ ops EXCEPT ![c].pc = "done" ]
  /\ UNCHANGED << task_assignments, users, earnings, task_results,
                  node_trust, now, mismatches, lastOutcome, hashed, client,
                  verification, taskLoops, claims, settled, claimOps >>

NextPool ==
  \/ \E c \in Calls : EnsureTaskPoolSelect(c)
  \/ \E c \in Calls : EnsureTaskPoolInsert(c)

SpecPool == InitPool /\ [][NextPool]_vars

\* ------------------------------------- the task client and the request route
\* task requests the client sends
MaxRequests == 3

\* the client's deviceId
ClientDevice == "d1"

\* runTaskLoop calling requestTask: the fetch of POST /compute/task/request
SendRequest ==
  [ client EXCEPT !.pc = "fetch", !.route = "isNodeBanned",
                  !.requests = @ + 1 ]

\* start(): isRunning = true, and the first turn of runTaskLoop
ClientStart ==
  /\ client.pc = "new"
  /\ client' = [ SendRequest EXCEPT !.isRunning = TRUE ]
  /\ UNCHANGED << compute_tasks, task_assignments, users, earnings,
                  task_results, node_trust, now, ops, mismatches,
                  lastOutcome, hashed, verification, taskLoops, claims,
                  settled, claimOps >>

\* the route: verifier.isNodeBanned, and the 403 for a banned node
RouteIsNodeBanned ==
  /\ client.route = "isNodeBanned"
  /\ client' =
       IF isNodeBanned(ClientDevice)
         THEN [ client EXCEPT !.route = "replied",
                  !.reply = [ status |-> 403, success |-> FALSE,
                              task |-> FALSE, error |-> "Node is banned" ] ]
         ELSE [ client EXCEPT !.route = "getNextTask" ]
  /\ UNCHANGED << compute_tasks, task_assignments, users, earnings,
                  task_results, node_trust, now, ops, mismatches,
                  lastOutcome, hashed, verification, taskLoops, claims,
                  settled, claimOps >>

\* what getCanaryTask or getRegularTask can come back with, and the route's
\* response to it: a task, null, or an error
DispatchReplies ==
  { [ status |-> 200, success |-> TRUE, task |-> TRUE, error |-> "-" ],
    [ status |-> 200, success |-> TRUE, task |-> FALSE, error |-> "-" ],
    [ status |-> 400, success |-> FALSE, task |-> FALSE,
      error |-> "Device not registered" ],
    [ status |-> 500, success |-> FALSE, task |-> FALSE,
      error |-> "Failed to get task" ] }

\* the route: getNextTask (the trust check on what getNodeTrustScore
\* returns, then the dispatch) and the response
RouteGetNextTask ==
  /\ client.route = "getNextTask"
  /\ LET row == node_trust[ClientDevice]
         trustScore == IF row.present THEN trustScoreOf(row) ELSE 200
     IN /\ node_trust' = [ node_trust EXCEPT ![ClientDevice] = insertIfAbsent(@) ]
        /\ \E reply \in DispatchReplies :
             client' = [ client EXCEPT !.route = "replied", !.reply =
               IF trustScore < 2 * MIN_TRUST_SCORE
                 THEN [ status |-> 400, success |-> FALSE, task |-> FALSE,
                        error |-> "Trust score too low" ]
                 ELSE reply ]
  /\ UNCHANGED << compute_tasks, task_assignments, users, earnings,
                  task_results, now, ops, mismatches, lastOutcome, hashed,
                  verification, taskLoops, claims, settled, claimOps >>

\* requestTask from the response on, and runTaskLoop up to its delay: a 403
\* stops the client; a task is processed; anything else is waited out
ClientResponse ==
  /\ client.pc = "fetch"
  /\ client.route = "replied"
  /\ client' =
       IF client.reply.status = 403
         THEN [ client EXCEPT !.isRunning = FALSE, !.route = "-",
                              !.pc = "delay" ]
         ELSE IF client.reply.success /\ client.reply.task
           THEN [ client EXCEPT !.route = "-", !.pc = "processTask" ]
           ELSE [ client EXCEPT !.route = "-", !.pc = "delay" ]
  /\ UNCHANGED << compute_tasks, task_assignments, users, earnings,
                  task_results, node_trust, now, ops, mismatches,
                  lastOutcome, hashed, verification, taskLoops, claims,
                  settled, claimOps >>

\* runTaskLoop after processTask or the delay: the timer for the next turn
\* is set only while isRunning
ClientLoopEnd ==
  /\ client.pc \in {"processTask", "delay"}
  /\ client' = [ client EXCEPT !.pc = IF client.isRunning THEN "timer"
                                                          ELSE "stopped" ]
  /\ UNCHANGED << compute_tasks, task_assignments, users, earnings,
                  task_results, node_trust, now, ops, mismatches,
                  lastOutcome, hashed, verification, taskLoops, claims,
                  settled, claimOps >>

\* the timer fires: the next turn of runTaskLoop
ClientTimer ==
  /\ client.pc = "timer"
  /\ client.requests < MaxRequests
  /\ client' = IF client.isRunning THEN SendRequest
                                   ELSE [ client EXCEPT !.pc = "stopped" ]
  /\ UNCHANGED << compute_tasks, task_assignments, users, earnings,
                  task_results, node_trust, now, ops, mismatches,
                  lastOutcome, hashed, verification, taskLoops, claims,
                  settled, claimOps >>

\* the client and the route, with canary results of the node coming in
NextClient ==
  \/ ClientStart
  \/ RouteIsNodeBanned
  \/ RouteGetNextTask
  \/ ClientResponse
  \/ ClientLoopEnd
  \/ ClientTimer
  \/ \E o \in FreeSlot, uuid \in Uuids, result \in Results,
          executionTimeMs \in ExecutionTimes :
       SubmitCanaryResult(o, ClientDevice, uuid, result, executionTimeMs)
  \/ \E o \in FreeSlot, uuid \in Uuids, result \in Results :
       CheckCanaryResult(o, ClientDevice, uuid, result)
  \/ \E o \in OpIds : RecordCanarySelect(o)
  \/ \E o \in OpIds : BanNode(o)

SpecClient == Init /\ [][NextClient]_vars

\* ------------------------------------ ResultVerifier.verifyResult on its own
\* result_hash values of the submissions, and how many of them there are
SubmissionHashes == {"A", "B", "C", "D"}
MaxSubmissions == 3

SubmissionLists ==
  UNION { [ 1..n -> SubmissionHashes ] : n \in 0..MaxSubmissions }

\* hashCounts[h]
hashCount(submissions, h) ==
  Cardinality({ i \in DOMAIN submissions : submissions[i] = h })

\* where h was first seen: the place of its key in hashCounts
firstSeen(submissions, h) ==
  CHOOSE i \in DOMAIN submissions :
    submissions[i] = h /\ \A j \in 1..(i - 1) : submissions[j] # h

\* sortedHashes[0][0]: the sort by count is stable, so of the hashes with the
\* highest count the one seen first comes first
topHashOf(submissions) ==
  CHOOSE h \in SubmissionHashes :
    /\ hashCount(submissions, h) > 0
    /\ \A g \in SubmissionHashes :
         \/ hashCount(submissions, g) < hashCount(submissions, h)
         \/ /\ hashCount(submissions, g) = hashCount(submissions, h)
            /\ firstSeen(submissions, h) <= firstSeen(submissions, g)

\* Math.ceil(totalSubmissions * 0.5)
consensusThreshold(totalSubmissions) == (totalSubmissions + 1) \div 2

verifyResult(submissions) ==
  IF Len(submissions) < 2
    THEN [ NoVerdict EXCEPT !.reason = "Insufficient submissions" ]
    ELSE LET topHash == topHashOf(submissions)
             topCount == hashCount(submissions, topHash)
             totalSubmissions == Len(submissions)
         IN IF topCount >= consensusThreshold(totalSubmissions)
              THEN [ verified |-> TRUE, reason |-> "-",
                     consensus_hash |-> topHash,
                     matching_count |-> topCount,
                     total_count |-> totalSubmissions ]
              ELSE [ NoVerdict EXCEPT !.reason = "No consensus reached" ]

InitVerify ==
  /\ verification \in { NotVerified(submissions) :
                           submissions \in SubmissionLists }
  /\ compute_tasks = [ t \in TaskIds |-> createAndStoreTask(TaskType(t), 1) ]
  /\ task_assignments = << >>
  /\ users = [ d \in Devices |-> NewUserRow ]
  /\ earnings = << >>
  /\ task_results = << >>
  /\ node_trust = [ d \in Devices |-> IF d = "d1" THEN NewTrustRow ELSE NoTrustRow ]
  /\ now = 0
  /\ ops = [ o \in OpIds |-> IdleOp ]
  /\ mismatches = [ d \in Devices |-> 0 ]
  /\ lastOutcome = NoOutcome
  /\ hashed = NotHashed(ResultAB, ResultAB)
  /\ client = NewClient
  /\ taskLoops = NoTaskLoops
  /\ claims = << >>
  /\ settled = NotSettled
  /\ claimOps = NoClaimOps

\* verifyResult(taskId, submissions) is called
VerifyResult ==
  /\ ~verification.called
  /\ verification' = [ verification EXCEPT
                         !.called = TRUE,
                         !.result = verifyResult(verification.submissions) ]
  /\ UNCHANGED << compute_tasks, task_assignments, users, earnings,
                  task_results, node_trust, now, ops, mismatches,
                  lastOutcome, hashed, client, taskLoops, claims, settled,
                  claimOps >>

NextVerify == VerifyResult

SpecVerify == InitVerify /\ [][NextVerify]_vars

\* ------------------------------------------- nodes that keep working
\* three registered nodes with WebGPU and a Trust Record each; each keeps
\* requesting tasks and submits the computed result, once, for a task it was
\* assigned (OriusTaskClient.processTask)
WorkingNodes == {"d1", "d2", "d3"}

InitProgress ==
  /\ compute_tasks = [ t \in TaskIds |-> createAndStoreTask(TaskType(t), 1) ]
  /\ task_assignments = << >>
  /\ users = [ d \in WorkingNodes |-> NewUserRow ]
  /\ earnings = << >>
  /\ task_results = << >>
  /\ node_trust = [ d \in WorkingNodes |-> NewTrustRow ]
  /\ now = 0
  /\ ops = [ o \in OpIds |-> IdleOp ]
  /\ mismatches = [ d \in WorkingNodes |-> 0 ]
  /\ lastOutcome = NoOutcome
  /\ hashed = NotHashed(ResultAB, ResultAB)
  /\ client = NewClient
  /\ verification = NoVerification
  /\ taskLoops = NoTaskLoops
  /\ claims = << >>
  /\ settled = NotSettled
  /\ claimOps = NoClaimOps

\* the slot of the next request or submission: the first one that is idle,
\* once the answered ones have been cleared
NextSlot ==
  IF \E o \in OpIds : ops[o].pc = "done"
  THEN {}
  ELSE { o \in FreeSlot : \A p \in OpIds : ops[p].pc = "idle" => o <= p }

\* the node's request for work
NodeRequests(d) == \E o \in NextSlot : RequestTask(o, d, TRUE)

\* the node's submission for a task it holds an active assignment for
NodeSubmits(d) ==
  \E o \in NextSlot, t \in TaskIds :
    /\ \E i \in OwnAssignments(t, d) :
         task_assignments[i].status \in ActiveStatuses
    /\ SubmitRegularResult(o, d, << "task", t >>, ResultAB, 50)

\* a request or submission that has been answered is over
Answered ==
  /\ \E o \in OpIds : ops[o].pc = "done"
  /\ ops' = [ o \in OpIds |-> IF ops[o].pc = "done" THEN IdleOp ELSE ops[o] ]
  /\ UNCHANGED << compute_tasks, task_assignments, users, earnings,
                  task_results, node_trust, now, mismatches, lastOutcome,
                  hashed, client, verification, taskLoops, claims, settled,
                  claimOps >>

\* getNextTask takes the normal branch (Math.random() >= CANARY_TASK_FREQUENCY)
NormalBranch(o) == GetNodeTrustScore(o) /\ ops'[o].pc = "getRegularTask"

NextProgress ==
  \/ \E d \in WorkingNodes : NodeRequests(d)
  \/ \E o \in OpIds : GetNodeTrustScore(o)
  \/ \E o \in OpIds : GetCanaryTask(o)
  \/ \E o \in OpIds : SelectTask(o)
  \/ \E o \in OpIds : ClaimTask(o)
  \/ \E d \in WorkingNodes : NodeSubmits(d)
  \/ \E o \in OpIds : CommitRegularResult(o)
  \/ Answered

\* every node keeps requesting and submitting, the normal branch is taken
\* again and again, and a started request or submission is carried through
SpecProgress ==
  /\ InitProgress
  /\ [][NextProgress]_vars
  /\ \A d \in WorkingNodes : SF_vars(NodeRequests(d)) /\ SF_vars(NodeSubmits(d))
  /\ SF_vars(\E o \in OpIds : NormalBranch(o))
  /\ WF_vars(\E o \in OpIds : GetNodeTrustScore(o))
  /\ WF_vars(\E o \in OpIds : GetCanaryTask(o))
  /\ WF_vars(\E o \in OpIds : SelectTask(o))
  /\ WF_vars(\E o \in OpIds : ClaimTask(o))
  /\ WF_vars(\E o \in OpIds : CommitRegularResult(o))
  /\ WF_vars(Answered)

\* ------------------------------------- OriusTaskClient: start() and stop()
\* stop(): isRunning = false, and clearTimeout(this.taskLoop) when it is set
stop(c) ==
  [ isRunning |-> FALSE, taskLoop |-> 0,
    loop |-> [ l \in LoopIds |->
                 IF l = c.taskLoop /\ c.loop[l] = "timer" THEN "-" ELSE c.loop[l] ] ]

\* start() while not running: isRunning = true and a call of runTaskLoop,
\* which sends its task request
StartClient ==
  /\ ~taskLoops.isRunning
  /\ \E l \in LoopIds :
       /\ taskLoops.loop[l] = "-"
       /\ \A k \in LoopIds : taskLoops.loop[k] = "-" => l <= k
       /\ taskLoops' = [ taskLoops EXCEPT !.isRunning = TRUE,
                                          !.loop[l] = "requestTask" ]
  /\ UNCHANGED << compute_tasks, task_assignments, users, earnings,
                  task_results, node_trust, now, ops, mismatches, lastOutcome,
                  hashed, client, verification, claims, settled, claimOps >>

\* stop() called by the extension
StopClient ==
  /\ taskLoops' = stop(taskLoops)
  /\ taskLoops' # taskLoops
  /\ UNCHANGED << compute_tasks, task_assignments, users, earnings,
                  task_results, node_trust, now, ops, mismatches, lastOutcome,
                  hashed, client, verification, claims, settled, claimOps >>

\* requestTask gets its response: a 403 calls stop(); then processTask or
\* the delay is awaited
LoopResponse(l, banned) ==
  /\ taskLoops.loop[l] = "requestTask"
  /\ taskLoops' = [ (IF banned THEN stop(taskLoops) ELSE taskLoops)
                      EXCEPT !.loop[l] = "await" ]
  /\ UNCHANGED << compute_tasks, task_assignments, users, earnings,
                  task_results, node_trust, now, ops, mismatches, lastOutcome,
                  hashed, client, verification, claims, settled, claimOps >>

\* runTaskLoop after its await: while isRunning, the next turn is scheduled
\* and the handle kept in this.taskLoop
LoopSchedules(l) ==
  /\ taskLoops.loop[l] = "await"
  /\ taskLoops' = IF taskLoops.isRunning
                    THEN [ taskLoops EXCEPT !.loop[l] = "timer", !.taskLoop = l ]
                    ELSE [ taskLoops EXCEPT !.loop[l] = "-" ]
  /\ UNCHANGED << compute_tasks, task_assignments, users, earnings,
                  task_results, node_trust, now, ops, mismatches, lastOutcome,
                  hashed, client, verification, claims, settled, claimOps >>

\* the timer fires: runTaskLoop returns at once unless isRunning, and sends
\* its task request otherwise
LoopTimer(l) ==
  /\ taskLoops.loop[l] = "timer"
  /\ taskLoops' = [ taskLoops EXCEPT !.loop[l] =
                      IF taskLoops.isRunning THEN "requestTask" ELSE "-" ]
  /\ UNCHANGED << compute_tasks, task_assignments, users, earnings,
                  task_results, node_trust, now, ops, mismatches, lastOutcome,
                  hashed, client, verification, claims, settled, claimOps >>

NextLoops ==
  \/ StartClient
  \/ StopClient
  \/ \E l \in LoopIds, banned \in BOOLEAN : LoopResponse(l, banned)
  \/ \E l \in LoopIds : LoopSchedules(l)
  \/ \E l \in LoopIds : LoopTimer(l)

SpecLoops == Init /\ [][NextLoops]_vars

\* --------------------------------------------- POST /claim and its settlement
\* amounts are in tenths: a claim of the minimum, and one a little above it
ClaimAmounts == { 10 * MIN_CLAIM_AMOUNT, 10 * MIN_CLAIM_AMOUNT + 3 }

\* d1's user has earned the minimum claim amount with heartbeats
InitClaims ==
  /\ compute_tasks = [ t \in TaskIds |-> createAndStoreTask(TaskType(t), 1) ]
  /\ task_assignments = << >>
  /\ users = [ d \in Devices |->
                 IF d = "d1"
                   THEN [ NewUserRow EXCEPT
                            !.total_earned = 10 * MIN_CLAIM_AMOUNT,
                            !.claimable_balance = 10 * MIN_CLAIM_AMOUNT ]
                   ELSE NewUserRow ]
  /\ earnings = << >>
  /\ task_results = << >>
  /\ node_trust = [ d \in Devices |-> IF d = "d1" THEN NewTrustRow ELSE NoTrustRow ]
  /\ now = 0
  /\ ops = [ o \in OpIds |-> IdleOp ]
  /\ mismatches = [ d \in Devices |-> 0 ]
  /\ lastOutcome = NoOutcome
  /\ hashed = NotHashed(ResultAB, ResultAB)
  /\ client = NewClient
  /\ verification = NoVerification
  /\ taskLoops = NoTaskLoops
  /\ claims = << >>
  /\ settled = NotSettled
  /\ claimOps = NoClaimOps

\* a credit to the user: the UPDATE of users of a heartbeat (0.3 here) or of
\* a verified submission
CreditUser(d) ==
  /\ users[d].total_earned < 10 * MIN_CLAIM_AMOUNT + 3 * MaxCredits
  /\ users' = [ users EXCEPT ![d].claimable_balance = @ + 3,
                             ![d].total_earned = @ + 3 ]
  /\ UNCHANGED << compute_tasks, task_assignments, earnings, task_results,
                  node_trust, now, ops, mismatches, lastOutcome, hashed,
                  client, verification, taskLoops, claims, settled, claimOps >>

\* POST /claim up to its INSERT: the amount limits, the SELECT of the user
\* (its FOR UPDATE lock ends with the statement: db.query runs each
\* statement on the pool, in its own transaction), the balance check and the
\* check for a completed claim of the last hour
ClaimSelect(r, d, amount) ==
  /\ claimOps[r].pc = "idle"
  /\ \A q \in 1..MaxClaimOps : claimOps[q].pc = "idle" => r <= q
  /\ Len(claims) + Cardinality({ q \in 1..MaxClaimOps :
                                   claimOps[q].pc = "claimWrite" }) < MaxClaims
  /\ claimOps' = [ claimOps EXCEPT ![r] =
       IF \/ amount < 10 * MIN_CLAIM_AMOUNT
          \/ users[d].claimable_balance < amount
          \/ \E c \in DOMAIN claims :
               claims[c].user_id = d /\ claims[c].status = "completed"
         THEN [ pc |-> "done", amount |-> 0, claim |-> 0 ]
         ELSE [ pc |-> "claimWrite", amount |-> amount, claim |-> 0 ] ]
  /\ UNCHANGED << compute_tasks, task_assignments, users, earnings,
                  task_results, node_trust, now, ops, mismatches, lastOutcome,
                  hashed, client, verification, taskLoops, claims, settled >>

\* POST /claim: the INSERT of the claim with status 'processing' and the
\* UPDATE that takes the amount off claimable_balance
ClaimWrite(r, d) ==
  /\ claimOps[r].pc = "claimWrite"
  /\ claims' = Append(claims, [ user_id |-> d, amount |-> claimOps[r].amount,
                                status |-> "processing" ])
  /\ users' = [ users EXCEPT ![d].claimable_balance = @ - claimOps[r].amount ]
  /\ claimOps' = [ claimOps EXCEPT ![r].pc = "done",
                                   ![r].claim = Len(claims) + 1 ]
  /\ UNCHANGED << compute_tasks, task_assignments, earnings, task_results,
                  node_trust, now, ops, mismatches, lastOutcome, hashed,
                  client, verification, taskLoops, settled >>

\* POST /api/claim/process: the SELECT of the claim with status 'processing'
\* (404 when there is none)
ProcessSelect(r, claimId) ==
  /\ claimOps[r].pc = "idle"
  /\ \A q \in 1..MaxClaimOps : claimOps[q].pc = "idle" => r <= q
  /\ claimOps' = [ claimOps EXCEPT ![r] =
       IF claimId \in DOMAIN claims /\ claims[claimId].status = "processing"
         THEN [ pc |-> "transfer", amount |-> claims[claimId].amount,
                claim |-> claimId ]
         ELSE [ pc |-> "done", amount |-> 0, claim |-> 0 ] ]
  /\ UNCHANGED << compute_tasks, task_assignments, users, earnings,
                  task_results, node_trust, now, ops, mismatches, lastOutcome,
                  hashed, client, verification, taskLoops, claims, settled >>

\* POST /api/claim/process after the SELECT: the transfer is sent and
\* confirmed and the claim is set to 'completed'; or building or sending it
\* throws, the claim is set to 'failed' and its amount is added back
ProcessSettle(r, sent) ==
  /\ claimOps[r].pc = "transfer"
  /\ LET c == claimOps[r].claim
     IN /\ claims' = [ claims EXCEPT ![c].status =
                         IF sent THEN "completed" ELSE "failed" ]
        /\ settled' = [ settled EXCEPT
                          ![c].transfers = IF sent THEN @ + 1 ELSE @,
                          ![c].refunds = IF sent THEN @ ELSE @ + 1,
                          ![c].updates = @ + 1 ]
        /\ users' = IF sent THEN users
                    ELSE [ users EXCEPT ![claims[c].user_id].claimable_balance
                                          = @ + claimOps[r].amount ]
  /\ claimOps' = [ claimOps EXCEPT ![r].pc = "done" ]
  /\ UNCHANGED << compute_tasks, task_assignments, earnings, task_results,
                  node_trust, now, ops, mismatches, lastOutcome, hashed,
                  client, verification, taskLoops >>

NextClaims ==
  \/ CreditUser("d1")
  \/ \E r \in 1..MaxClaimOps, amount \in ClaimAmounts : ClaimSelect(r, "d1", amount)
  \/ \E r \in 1..MaxClaimOps : ClaimWrite(r, "d1")
  \/ \E r \in 1..MaxClaimOps, claimId \in 1..MaxClaims : ProcessSelect(r, claimId)
  \/ \E r \in 1..MaxClaimOps, sent \in BOOLEAN : ProcessSettle(r, sent)

SpecClaims == InitClaims /\ [][NextClaims]_vars

\* ================================================================ claims
\* the completed rows of task t, and how many of them carry hash h
CompletedOf(t) ==
  { i \in AssignmentIds : /\ task_assignments[i].task_id = t
                          /\ task_assignments[i].status = "completed" }
HashCount(t, h) ==
  Cardinality({ i \in CompletedOf(t) : task_assignments[i].result_hash = h })
\* h is a most frequent hash among the completed submissions of t
IsModal(t, h) ==
  \A i \in CompletedOf(t) : HashCount(t, h) >= HashCount(t, task_assignments[i].result_hash)

ActiveRows(t, d) ==
  { i \in OwnAssignments(t, d) : task_assignments[i].status \in ActiveStatuses }

EarningsRows(d, t) ==
  { k \in DOMAIN earnings : earnings[k].user_id = d /\ earnings[k].task_id = t }

ResultRows(t) ==
  { k \in DOMAIN task_results : task_results[k].task_id = t }

RECURSIVE RewardSum(_)
RewardSum(S) ==
  IF S = {} THEN 0
  ELSE LET t == CHOOSE x \in S : TRUE
       IN compute_tasks[t].reward_credits + RewardSum(S \ {t})

\* the latest submitResult was a regular submission that was recorded
LastRecorded == lastOutcome.op = "regular" /\ lastOutcome.success
LastTask == task_assignments[lastOutcome.aid].task_id
LastHash == task_assignments[lastOutcome.aid].result_hash

\* C1: in every reachable state, the Assignment rows of a task with status
\* assigned, processing or completed number at most its redundancy_count.
C1_RedundancyBound ==
  \A t \in TaskIds :
    Cardinality(CountedAssignments(t)) <= compute_tasks[t].redundancy_count

\* C1 witness: dispatches and a submission have interleaved: one assignment
\* is completed while another one is assigned.
C1_Witness ==
  \E i, j \in AssignmentIds :
    /\ task_assignments[i].status = "completed"
    /\ task_assignments[j].status = "assigned"

\* C2: for every (task, node) pair there is at most one Assignment row with
\* status assigned or processing.
C2_OneActivePerPair ==
  \A t \in TaskIds, d \in Devices : Cardinality(ActiveRows(t, d)) <= 1

\* C2 witness: a node that holds an active assignment has a second dispatch
\* of its own in progress, between its SELECT and its COMMIT.
C2_Witness ==
  \E d \in Devices, t \in TaskIds, o \in OpIds :
    /\ ActiveRows(t, d) # {}
    /\ ops[o].pc = "claim" /\ ops[o].argDevice = d

\* C3 (as claimed): for every node and task, at most one earnings record is
\* appended, and the node's credited balance never exceeds the rewards of
\* the tasks assigned to it.
C3_CreditedOnce ==
  \A d \in Devices :
    /\ \A t \in TaskIds : Cardinality(EarningsRows(d, t)) <= 1
    /\ users[d].total_compute_credits
         <= RewardSum({ t \in TaskIds : OwnAssignments(t, d) # {} })

OpenForFanOut(t, deviceId, webgpu) ==
  /\ deviceId \in DOMAIN users
  /\ { i \in AssignmentIds : task_assignments[i].task_id = t } # {}
  /\ compute_tasks[t].expires_at > now
  /\ (webgpu \/ compute_tasks[t].requires_gpu = FALSE)
  /\ t \notin ActiveTasksOf(deviceId)
  /\ Cardinality(CountedAssignments(t)) < compute_tasks[t].redundancy_count
  /\ ~RowLocked(t)

C5_FanOut ==
  [][ \A o \in OpIds :
        (ops[o].pc = "getRegularTask" /\ ops'[o].pc = "done")
          => ~ \E t \in TaskIds :
                 OpenForFanOut(t, ops[o].argDevice, ops[o].argGpu) ]_vars

RecordingFor(d) ==
  \E o \in OpIds : ops[o].pc \in {"recordSelect", "banNode"} /\ ops[o].dev = d

C8_BanAtThreeMismatches ==
  \A d \in Devices :
    (node_trust[d].present /\ ~RecordingFor(d))
      => /\ node_trust[d].banned <=> mismatches[d] >= 3
         /\ node_trust[d].banned
              => (node_trust[d].ban_reason # NULL /\ node_trust[d].banned_at # NULL)

\* C8 witness: a node with exactly 3 mismatches, all through
\* verifyCanaryResult, is banned.
C8_Witness ==
  \E d \in Devices :
    /\ mismatches[d] = 3
    /\ node_trust[d].banned
    /\ node_trust[d].ban_reason = "Multiple canary failures"

\* C9: every Trust Record has 0 <= trust_score <= 100.
C9_TrustBounds ==
  \A d \in Devices :
    node_trust[d].trust_score >= 0 /\ node_trust[d].trust_score <= 200

\* C9 witness: a mismatch recorded against a score already at 0 (after a
\* ban) left it at 0.
C9_Witness ==
  \E d \in Devices :
    /\ node_trust[d].trust_score = 0
    /\ node_trust[d].canary_failures > CANARY_BAN_THRESHOLD

\* C10 (as claimed): no step resets banned from true to false, and no
\* Assignment row is created for a node whose Trust Record has banned = true.
C10_BanTerminal ==
  [][ /\ \A d \in Devices : isNodeBanned(d) => isNodeBanned(d)'
      /\ Len(task_assignments') > Len(task_assignments)
           => ~isNodeBanned(task_assignments'[Len(task_assignments')].device_id) ]_vars

\* C17: two values that are equal up to the order of the keys of their
\* objects, at any nesting depth and inside arrays, get the same digest from
\* hashResult, and two values that differ in a key, a value or the order of
\* an array get different digests.
ObjKeys(v) == { v[2][i][1] : i \in DOMAIN v[2] }

RECURSIVE SameUpToKeyOrder(_, _)
SameUpToKeyOrder(a, b) ==
  IF a[1] # b[1] THEN FALSE
  ELSE IF a[1] = "num" THEN a[2] = b[2]
  ELSE IF a[1] = "arr"
    THEN IF Len(a[2]) # Len(b[2]) THEN FALSE
         ELSE \A i \in DOMAIN a[2] : SameUpToKeyOrder(a[2][i], b[2][i])
    ELSE IF ObjKeys(a) # ObjKeys(b) THEN FALSE
         ELSE \A k \in ObjKeys(a) :
                SameUpToKeyOrder(Get(a[2], k), Get(b[2], k))

C17_CanonicalHash ==
  hashed.ha # NoHash
    => (SameUpToKeyOrder(hashed.a, hashed.b) <=> hashed.ha = hashed.hb)

\* C17 witness: two different values, one with its nested objects' keys in
\* another order inside an array, were hashed to the same digest.
C17_Witness ==
  /\ hashed.ha # NoHash
  /\ hashed.a # hashed.b
  /\ hashed.ha = hashed.hb
  /\ hashed.a[1] = "obj"
  /\ \E i \in DOMAIN hashed.a[2] : hashed.a[2][i][2][1] = "arr"

\* C11: getNextTask for a node whose Trust Record is banned or has a
\* trust_score below MIN_TRUST_SCORE returns the error 'Trust score too low',
\* goes on to neither getCanaryTask nor getRegularTask and leaves tasks and
\* assignments as they are; for a node at or above the floor and not banned
\* it goes on to one of the two, and no other step returns that error.
C11_AdmissionControl ==
  [][ \A o \in OpIds :
        /\ (ops[o].pc = "getNextTask" /\ ops'[o] # ops[o])
             => LET row == node_trust[ops[o].dev]
                IN IF ~row.present
                     THEN ops'[o].pc = "insertTrust"
                     ELSE IF row.banned \/ row.trust_score < 2 * MIN_TRUST_SCORE
                       THEN /\ ops'[o].pc = "done"
                            /\ ops'[o].error = "Trust score too low"
                            /\ UNCHANGED << compute_tasks, task_assignments >>
                       ELSE /\ ops'[o].pc \in {"getCanaryTask", "getRegularTask"}
                            /\ ops'[o].error = "-"
        /\ (ops'[o].error = "Trust score too low" /\ ops'[o] # ops[o])
             => ops[o].pc = "getNextTask" ]_vars

\* C11 witness: a request was turned down with 'Trust score too low' (its
\* node was banned after the route's isNodeBanned check).
C11_Witness ==
  \E o \in OpIds : ops[o].pc = "done" /\ ops[o].error = "Trust score too low"

\* C12: every step that raises a user's balances or appends an earnings row
\* is the commit of a submission whose outcome is verified = true, and every
\* outcome with verified = false reports credits_awarded = 0 and comes from
\* a step that leaves users and earnings as they are.
C12_CreditsOnlyOnVerified ==
  [][ /\ (users' # users \/ earnings' # earnings)
           => /\ lastOutcome'.op = "regular"
              /\ lastOutcome'.verified
              /\ \E o \in OpIds : ops[o].pc = "commit" /\ ops'[o].pc = "done"
      /\ ~lastOutcome'.verified
           => /\ lastOutcome'.credits_awarded = 0
              /\ UNCHANGED << users, earnings >> ]_vars

\* C12 witness: a recorded submission came back unverified while a user holds
\* credits from an earlier verified one.
C12_Witness ==
  /\ LastRecorded
  /\ ~lastOutcome.verified
  /\ \E d \in Devices : users[d].claimable_balance > 0

\* C13 (as claimed): no submission whose executionTimeMs is below the
\* minimum of its task's type gets past verifyExecutionTime to processRegularResult.
C13_PlausibilityFirst ==
  \A o \in OpIds :
    ops[o].pc = "commit"
      => ops[o].ms >= expectedRange(compute_tasks[ops[o].task].task_type, 1).min

\* C14: a submission is taken to processRegularResult's writes only with an
\* Assignment row of the submitting node for that task, and writes only that
\* row; the outcome 'Assignment not found' (success = false) is never
\* verified, awards nothing and comes from a step that changes no
\* assignment, task, result, balance or trust state.
C14_AssignmentNotFound ==
  [][ \A o \in OpIds :
        /\ (ops[o].pc = "idle" /\ ops'[o].pc = "commit")
             => /\ ops'[o].aid \in DOMAIN task_assignments
                /\ task_assignments[ops'[o].aid].device_id = ops'[o].dev
                /\ task_assignments[ops'[o].aid].task_id = ops'[o].task
        /\ (ops[o].pc = "commit" /\ ops'[o].pc = "done")
             => \A i \in DOMAIN task_assignments :
                  task_assignments'[i] # task_assignments[i]
                    => task_assignments[i].device_id = ops[o].dev
        /\ ( /\ ops[o].pc = "idle" /\ ops'[o].pc = "done"
             /\ lastOutcome' # lastOutcome
             /\ lastOutcome'.op = "regular" /\ ~lastOutcome'.success )
             => /\ ~lastOutcome'.verified
                /\ lastOutcome'.credits_awarded = 0
                /\ UNCHANGED << compute_tasks, task_assignments, task_results,
                                users, earnings, node_trust >> ]_vars

\* C14 witness: a node without an Assignment row for the task submitted
\* while the task is assigned to another node, and got 'Assignment not found'.
C14_Witness ==
  /\ lastOutcome.op = "regular"
  /\ ~lastOutcome.success
  /\ \E d \in Devices, t \in TaskIds :
       /\ OwnAssignments(t, d) = {}
       /\ \E i \in AssignmentIds : task_assignments[i].task_id = t

\* C15: no committed state shows part of a submission: a verified assignment
\* is completed, carries the task's reward and has its earnings row; every
\* earnings row belongs to a verified assignment; a user's balances are the
\* sum of the user's earnings rows; a node's total_tasks_completed counts
\* its earnings rows; a task is completed exactly when it has a Task Result
\* Record.  This holds whichever statement of processRegularResult fails.
RECURSIVE EarnedUpTo(_, _)
EarnedUpTo(d, k) ==
  IF k = 0 THEN 0
  ELSE (IF earnings[k].user_id = d THEN earnings[k].earned_amount ELSE 0)
         + EarnedUpTo(d, k - 1)

EarningsOf(d) == { k \in DOMAIN earnings : earnings[k].user_id = d }

C15_SubmissionAtomicity ==
  /\ \A i \in AssignmentIds :
       LET r == task_assignments[i]
       IN /\ r.verified
               => /\ r.status = "completed"
                  /\ r.credits_awarded = compute_tasks[r.task_id].reward_credits
                  /\ EarningsRows(r.user_id, r.task_id) # {}
          /\ (r.status = "completed") <=> (r.result_hash # NoHash)
  /\ \A k \in DOMAIN earnings :
       \E i \in AssignmentIds :
         /\ task_assignments[i].verified
         /\ task_assignments[i].user_id = earnings[k].user_id
         /\ task_assignments[i].task_id = earnings[k].task_id
  /\ \A d \in Devices :
       /\ users[d].total_compute_credits = EarnedUpTo(d, Len(earnings))
       /\ users[d].claimable_balance = EarnedUpTo(d, Len(earnings))
       /\ users[d].total_earned = EarnedUpTo(d, Len(earnings))
       /\ node_trust[d].total_tasks_completed = Cardinality(EarningsOf(d))
  /\ \A t \in TaskIds :
       (compute_tasks[t].status = "completed") <=> (ResultRows(t) # {})

\* C15 witness: a submission was rolled back (the route answered 500) while
\* another one is committed, verified and credited.
C15_Witness ==
  /\ \E o \in OpIds : ops[o].error = "Failed to submit result"
  /\ \E i \in AssignmentIds : task_assignments[i].verified

\* C16: after every step, a task is 'pending' exactly when it has no
\* Assignment row; a claim either appends the row and sets the task
\* 'assigned' together or changes neither; a dispatch that finds the device
\* unregistered leaves the selected task 'pending' without a new row.
RowsOf(t) == { i \in AssignmentIds : task_assignments[i].task_id = t }

C16_DispatchAtomicity ==
  [][ /\ \A t \in TaskIds :
           (compute_tasks'[t].status = "pending") <=> (RowsOf(t)' = {})
      /\ \A o \in OpIds :
           (ops[o].pc = "claim" /\ ops'[o].pc = "done")
             => \/ /\ UNCHANGED << compute_tasks, task_assignments >>
                   /\ compute_tasks[ops[o].task].status = "pending"
                \/ /\ ops'[o].error = "-"
                   /\ task_assignments' = Append(task_assignments,
                         NewAssignment(ops[o].task, ops[o].argDevice))
                   /\ compute_tasks'[ops[o].task].status = "assigned"
      /\ \A o \in OpIds :
           (ops'[o].error = "Device not registered" /\ ops'[o] # ops[o])
             => /\ UNCHANGED << compute_tasks, task_assignments >>
                /\ compute_tasks[ops[o].task].status = "pending" ]_vars

\* C16 witness: a dispatch found its device unregistered while one task is
\* assigned and another is still pending.
C16_Witness ==
  /\ \E o \in OpIds : ops[o].error = "Device not registered"
  /\ \E t \in TaskIds : compute_tasks[t].status = "assigned" /\ RowsOf(t) # {}
  /\ \E t \in TaskIds : compute_tasks[t].status = "pending"

\* C18 (as claimed): a step in which submitResult handles a canary
\* identifier changes no user balance, earnings row, Assignment, Task or
\* Task Result Record, and its outcome has credits_awarded = 0.
C18_CanaryTouchesOnlyTrust ==
  [][ (lastOutcome'.op = "canary" /\ lastOutcome' # lastOutcome)
        => /\ UNCHANGED << users, earnings, task_assignments, compute_tasks,
                           task_results >>
           /\ lastOutcome'.credits_awarded = 0 ]_vars

C20_ConsensusRecorded ==
  \A t \in TaskIds :
    ( /\ compute_tasks[t].expected_output_hash = NoHash
      /\ CompletedOf(t) # {}
      /\ compute_tasks[t].expires_at > now
      /\ ~RowLocked(t) )
      => \/ ResultRows(t) # {}
         \/ \E d \in Devices :
              \/ ActiveRows(t, d) # {}
              \/ /\ OwnAssignments(t, d) = {}
                 /\ \E webgpu \in BOOLEAN : Eligible(t, d, webgpu)

\* the step is the COMMIT of submission o's processRegularResult
Commits(o) ==
  /\ ops[o].pc = "commit"
  /\ ops'[o].pc = "done"
  /\ ops'[o].error = "-"

\* C21 (as claimed): the commit of a regular submission whose outcome is
\* verified = false adds 1 to the node's failed_tasks and
\* total_tasks_completed, lowers its trust_score (not below 0) and sets
\* last_failure_at; the commit of a verified one adds 1 to successful_tasks
\* and total_tasks_completed.
C21_FailuresLowerTrust ==
  [][ \A o \in OpIds :
        (Commits(o) /\ node_trust[ops[o].dev].present)
          => LET row == node_trust[ops[o].dev]
                 after == node_trust'[ops[o].dev]
             IN IF lastOutcome'.verified
                  THEN /\ after.successful_tasks = row.successful_tasks + 1
                       /\ after.total_tasks_completed
                            = row.total_tasks_completed + 1
                  ELSE /\ after.failed_tasks = row.failed_tasks + 1
                       /\ after.total_tasks_completed
                            = row.total_tasks_completed + 1
                       /\ after.trust_score >= 0
                       /\ after.trust_score <= row.trust_score
                       /\ row.trust_score > 0
                            => after.trust_score < row.trust_score
                       /\ after.last_failure_at # NULL ]_vars

\* C22 (as claimed): the range a submission is checked against is that of
\* the submitted task's own type and difficulty: no submission whose
\* executionTimeMs is above that maximum gets past verifyExecutionTime to
\* processRegularResult, whatever the result payload contains.
C22_RangeOfTheTask ==
  \A o \in OpIds :
    ops[o].pc = "commit"
      => ops[o].ms <= expectedRange(compute_tasks[ops[o].task].task_type,
                                    compute_tasks[ops[o].task].difficulty).max

\* C23: a dispatch query selects only a task whose expires_at is in the
\* future at that time, and an Assignment row is only created for the task
\* the query selected; the passing of time changes no task and no
\* assignment; and a node can still submit for its assignment after the
\* task has expired.
Expired(t) == compute_tasks[t].expires_at <= now

C23_Expiry ==
  /\ [][ /\ \A o \in OpIds :
              (ops[o].pc = "getRegularTask" /\ ops'[o].pc = "claim")
                => ~Expired(ops'[o].task)
         /\ Len(task_assignments') > Len(task_assignments)
              => \E o \in OpIds :
                   /\ ops[o].pc = "claim"
                   /\ task_assignments'[Len(task_assignments')].task_id
                        = ops[o].task
         /\ now' # now => UNCHANGED << compute_tasks, task_assignments >> ]_vars
  /\ [] \A d \in Devices, t \in TaskIds :
          ( /\ Expired(t)
            /\ OwnAssignments(t, d) # {}
            /\ ~RowLocked(t) /\ ~UserLocked(d)
            /\ FreeSlot # {} )
            => ENABLED (\E o \in FreeSlot, result \in Results :
                          SubmitRegularResult(o, d, << "task", t >>, result, 50))

\* C23 witness: after the pool has expired, one task is still pending and
\* unassigned, a dispatch of a registered node is at its query, and a
\* submission for an assignment of an expired task is being recorded.
C23_Witness ==
  /\ \A t \in TaskIds : Expired(t)
  /\ \E t \in TaskIds : compute_tasks[t].status = "pending" /\ RowsOf(t) = {}
  /\ \E o \in OpIds : ops[o].pc = "getRegularTask" /\ ops[o].argGpu
                        /\ ops[o].argDevice \in DOMAIN users
  /\ \E o \in OpIds : ops[o].pc = "commit" /\ Expired(ops[o].task)

\* C24: a dispatch query made for a request that did not declare
\* webgpu_supported never selects a task with requires_gpu = true, on the
\* normal path and on the fall-through from the canary path alike, and such
\* a request is not served a matrix_mult canary: a canary is served to it
\* only when the pool holds a canary of another type.
C24_GpuMatching ==
  [][ \A o \in OpIds :
        ~ops[o].gpu
          => /\ (ops[o].pc = "getRegularTask" /\ ops'[o].pc = "claim")
                  => ~compute_tasks[ops'[o].task].requires_gpu
             /\ (ops[o].pc = "getCanaryTask" /\ ops'[o].pc = "done")
                  => \E c \in CanaryIds :
                       canary_tasks[c].task_type # "matrix_mult" ]_vars

\* C24 witness: a task with requires_gpu = true is assigned (to a request
\* that declared WebGPU) while a request without WebGPU, fallen through from
\* the canary path, is at its dispatch query.
C24_Witness ==
  /\ \E i \in AssignmentIds : compute_tasks[task_assignments[i].task_id].requires_gpu
  /\ \E o \in OpIds : /\ ops[o].pc = "getRegularTask"
                        /\ ~ops[o].gpu
                        /\ ops[o].argDevice = CapsObject
  /\ \E t \in TaskIds : compute_tasks[t].status = "pending" /\ ~Expired(t)

\* C25 (as claimed): a request that falls through from getCanaryTask goes
\* on as getRegularTask(deviceId, capabilities) of the requesting node: the
\* dispatch query is made for the node's device id and declared
\* capabilities, and a registered node's dispatch is not answered 'Device
\* not registered'.
C25_FallThroughIsNormalDispatch ==
  [][ \A o \in OpIds :
        /\ (ops[o].pc = "getCanaryTask" /\ ops'[o].pc = "getRegularTask")
             => /\ ops'[o].argDevice = ops[o].dev
                /\ ops'[o].argGpu = ops[o].gpu
        /\ (ops[o].pc = "claim" /\ ops'[o].pc = "done"
               /\ ops[o].dev \in DOMAIN users)
             => ops'[o].error # "Device not registered" ]_vars

\* C26: a dispatch at its query is never made to wait; it selects a task
\* that is eligible for it and whose row no other transaction in progress
\* has locked whenever there is one, and comes back without a task only when
\* there is none; so no two dispatches in progress hold the same task.
LockedByOther(t, o) ==
  \E p \in OpIds \ {o} : ops[p].pc \in {"claim", "commit"} /\ ops[p].task = t

FreeFor(o) ==
  { t \in TaskIds : /\ Eligible(t, ops[o].argDevice, ops[o].argGpu)
                     /\ ~LockedByOther(t, o) }

C26_SkipLocked ==
  /\ [] \A o \in OpIds :
          /\ ops[o].pc = "getRegularTask" => ENABLED SelectTask(o)
          /\ \A p \in OpIds \ {o} :
               (ops[o].pc = "claim" /\ ops[p].pc = "claim")
                 => ops[o].task # ops[p].task
  /\ [][ \A o \in OpIds :
            (ops[o].pc = "getRegularTask" /\ ops'[o] # ops[o])
              => IF FreeFor(o) = {}
                   THEN ops'[o].pc = "done" /\ ops'[o].error = "-"
                   ELSE ops'[o].pc = "claim" /\ ops'[o].task \in FreeFor(o) ]_vars

\* C26 witness: two nodes requested concurrently with two eligible tasks,
\* and both dispatches have selected a task, each its own.
C26_Witness ==
  \E o, p \in OpIds :
    /\ ops[o].pc = "claim" /\ ops[p].pc = "claim"
    /\ ops[o].argDevice \in Devices /\ ops[p].argDevice \in Devices
    /\ ops[o].argDevice # ops[p].argDevice
    /\ ops[o].task # ops[p].task

\* C27: getNodeTrustScore returns 0 for a node whose Trust Record is
\* banned, whatever score is stored, and the stored score for a node with a
\* record that is not banned; for a node without a record it inserts one
\* with score 100 and returns 100, and an insert that finds a record (a
\* racing first request created it) leaves that record as it is.
C27_TrustScoreRead ==
  [][ \A o \in OpIds :
        LET d == ops[o].dev
        IN /\ (ops[o].pc = "getNextTask" /\ ops'[o] # ops[o])
                => /\ UNCHANGED node_trust
                   /\ IF ~node_trust[d].present
                        THEN ops'[o].pc = "insertTrust"
                        ELSE ops'[o].trustScore
                               = IF node_trust[d].banned
                                   THEN 0 ELSE node_trust[d].trust_score
           /\ (ops[o].pc = "insertTrust" /\ ops'[o] # ops[o])
                => /\ ops'[o].trustScore = 200
                   /\ node_trust'[d].present
                   /\ node_trust[d].present => node_trust'[d] = node_trust[d]
                   /\ ~node_trust[d].present
                        => /\ node_trust'[d].trust_score = 200
                           /\ ~node_trust'[d].banned
                   /\ \A e \in Devices \ {d} : node_trust'[e] = node_trust[e] ]_vars

\* C27 witness: two first requests of a node raced: one has inserted the
\* record, a canary mismatch has been recorded in it since, and the other
\* request is at its INSERT.
C27_Witness ==
  \E o \in OpIds :
    /\ ops[o].pc = "insertTrust"
    /\ node_trust[ops[o].dev].present
    /\ node_trust[ops[o].dev].canary_failures > 0

\* C28 (as claimed): once a call of ensureTaskPool has completed, every
\* task type has at least minTasks pending unexpired tasks; a call only adds
\* rows; and no step takes a type above the floor: a type that was below the
\* floor is left with exactly minTasks, also with two calls in progress.
C28_TopUp ==
  /\ [] ( (\E c \in Calls : ops[c].pc = "done")
            => \A type \in TASK_TYPES :
                 PendingCount(compute_tasks, type) >= minTasks )
  /\ [][ /\ Len(compute_tasks') >= Len(compute_tasks)
          /\ \A i \in DOMAIN compute_tasks : compute_tasks'[i] = compute_tasks[i]
          /\ \A type \in TASK_TYPES :
               PendingCount(compute_tasks', type)
                 <= Max(PendingCount(compute_tasks, type), minTasks) ]_vars

\* C29 (as claimed): the route answers a node that is banned or below
\* the trust floor otherwise than it answers 'no work available', and once
\* the client has received 'Node is banned' or 'Trust score too low' it
\* sends no further task request.
TrustRejections == {"Node is banned", "Trust score too low"}

C29_ClientHalts ==
  [][ /\ client'.reply.error \in TrustRejections
           => ~(client'.reply.status = 200 /\ client'.reply.success)
      /\ (client'.requests > client.requests /\ client.pc # "new")
           => client.reply.error \notin TrustRejections ]_vars

\* C30 (as claimed): once an Assignment row has status 'completed', no
\* step changes its status, result_hash, verified flag or credits_awarded.
C30_CompletedIsFinal ==
  [][ \A i \in DOMAIN task_assignments :
        task_assignments[i].status = "completed"
          => /\ task_assignments'[i].status = "completed"
             /\ task_assignments'[i].result_hash = task_assignments[i].result_hash
             /\ task_assignments'[i].verified = task_assignments[i].verified
             /\ task_assignments'[i].credits_awarded
                  = task_assignments[i].credits_awarded ]_vars

\* C31 (as claimed): verifyResult reports verified = true with
\* consensus_hash = h only when h is a most frequent hash of the submissions
\* and at least a simple majority of the redundancy target (2 of 3) of them
\* carry h; [A,A,B] verifies A, and [A,B,C] and [A,B] report no consensus.
C31_MajorityOfExpectedPool ==
  verification.called
    => LET subs == verification.submissions
           res == verification.result
       IN /\ res.verified
               => /\ \A g \in SubmissionHashes :
                       hashCount(subs, g) <= hashCount(subs, res.consensus_hash)
                  /\ hashCount(subs, res.consensus_hash) >= Quorum(TASK_REDUNDANCY)
          /\ subs = << "A", "A", "B" >>
               => res.verified /\ res.consensus_hash = "A"
          /\ subs = << "A", "B", "C" >> => ~res.verified
          /\ subs = << "A", "B" >> => ~res.verified

\* C32 (as claimed): with three registered, admitted nodes with WebGPU that
\* keep requesting and submitting, every pending unexpired task is
\* eventually assigned to 3 nodes, 'completed' and has a Task Result Record.
C32_Progress ==
  \A t \in TaskIds :
    (compute_tasks[t].status = "pending" /\ ~Expired(t))
      ~> ( /\ Cardinality(RowsOf(t)) >= TASK_REDUNDANCY
           /\ compute_tasks[t].status = "completed"
           /\ ResultRows(t) # {} )

\* tasks verified by consensus: no expected hash, redundancy target >= 3
ByConsensus(t) ==
  /\ compute_tasks[t].expected_output_hash = NoHash
  /\ compute_tasks[t].redundancy_count >= 3

\* C33: for a task without expected hash and a redundancy target of 3 or
\* more, the commit of the first completed submission returns verified =
\* false, awards nothing and leaves balances and earnings alone; the commit
\* of any submission changes the verified flag and the award of no row but
\* its own; and a row of such a task that has not just been submitted keeps
\* both in every step.
C33_DecidedAtSubmission ==
  [][ /\ \A o \in OpIds :
          (Commits(o) /\ ByConsensus(ops[o].task)) =>
            /\ (CompletedIn(task_assignments, ops[o].task) \subseteq { ops[o].aid }) =>
                 /\ ~lastOutcome'.verified
                 /\ lastOutcome'.credits_awarded = 0
                 /\ ~task_assignments'[ops[o].aid].verified
                 /\ users' = users
                 /\ earnings' = earnings
            /\ \A i \in DOMAIN task_assignments :
                 i # ops[o].aid =>
                   /\ task_assignments'[i].verified = task_assignments[i].verified
                   /\ task_assignments'[i].credits_awarded
                        = task_assignments[i].credits_awarded
      /\ \A i \in DOMAIN task_assignments :
          (/\ ByConsensus(task_assignments[i].task_id)
           /\ ~\E o \in OpIds : Commits(o) /\ ops[o].aid = i) =>
            /\ task_assignments'[i].verified = task_assignments[i].verified
            /\ task_assignments'[i].credits_awarded
                 = task_assignments[i].credits_awarded
    ]_vars

\* C33 witness: the first submission of a consensus task has been committed
\* and answered with verified = false, and a later submission for the task is
\* about to be committed
C33_Witness ==
  \E o \in OpIds :
    /\ ops[o].pc = "commit"
    /\ ByConsensus(ops[o].task)
    /\ task_assignments[ops[o].aid].status = "completed"
    /\ ~task_assignments[ops[o].aid].verified
    /\ lastOutcome.op = "regular"
    /\ lastOutcome.aid = ops[o].aid
    /\ lastOutcome.success /\ ~lastOutcome.verified

\* C34: with the request and submit routes alone, every Trust Record that is
\* not banned has at most 2 canary failures and a trust score of at least 80,
\* which is above MIN_TRUST_SCORE; and getNextTask rejects a request for its
\* trust score only when the score it read is 0, the score of a banned node.
C34_TrustFloor ==
  /\ \A d \in Devices :
       (node_trust[d].present /\ ~node_trust[d].banned) =>
         /\ node_trust[d].canary_failures <= 2
         /\ node_trust[d].trust_score >= 160
         /\ node_trust[d].trust_score >= 2 * MIN_TRUST_SCORE
  /\ \A o \in OpIds :
       ops[o].error = "Trust score too low" => ops[o].trustScore = 0

\* C34 witness: a node with two canary failures and a score of 80 is not
\* banned and its request has passed the admission check
C34_Witness ==
  \E o \in OpIds :
    /\ ops[o].pc \in {"getRegularTask", "getCanaryTask"}
    /\ ops[o].trustScore = 160
    /\ node_trust[ops[o].dev].present
    /\ ~node_trust[ops[o].dev].banned
    /\ node_trust[ops[o].dev].canary_failures = 2
    /\ node_trust[ops[o].dev].trust_score = 160

\* C35 (as claimed): the commit of a regular submission of a node whose
\* Trust Record has banned = true leaves the balances of the node's user and
\* the earnings alone.
C35_NoCreditWhileBanned ==
  [][ \A o \in OpIds :
        (Commits(o) /\ node_trust[ops[o].dev].banned) =>
          /\ users'[ops[o].dev] = users[ops[o].dev]
          /\ earnings' = earnings
    ]_vars

\* C36 (as claimed): a canary pass of verifyCanaryResult raises the node's
\* trust score only for a canary that a task request of the node was served,
\* once per serving: when it raises the score, the passes counted for the
\* node so far are fewer than the task requests the node has sent.
C36_OncePerServedCanary ==
  [][ ( /\ node_trust'[ClientDevice].successful_tasks
             = node_trust[ClientDevice].successful_tasks + 1
        /\ node_trust'[ClientDevice].trust_score
             > node_trust[ClientDevice].trust_score ) =>
        node_trust[ClientDevice].successful_tasks < client.requests
    ]_vars

\* C37: in every state, each user's total_compute_credits is the sum of the
\* earned_amount of the user's earnings rows, all of type 'compute'; and the
\* earnings change only by the commit of a regular submission of the user's
\* device that is answered verified = true, which appends exactly one row,
\* of the amount it reports as credits_awarded.
C37_ComputeLedger ==
  /\ [](/\ \A k \in DOMAIN earnings : earnings[k].earning_type = "compute"
        /\ \A d \in Devices :
             users[d].total_compute_credits = EarnedUpTo(d, Len(earnings)))
  /\ [][ /\ earnings' # earnings =>
             \E o \in OpIds :
               /\ Commits(o)
               /\ lastOutcome'.verified
               /\ earnings' = Append(earnings,
                    [ user_id |-> ops[o].dev,
                      earned_amount |-> lastOutcome'.credits_awarded,
                      earning_type |-> "compute",
                      task_id |-> ops[o].task ])
         /\ \A o \in OpIds :
             (Commits(o) /\ lastOutcome'.verified) => Len(earnings') = Len(earnings) + 1
    ]_vars

\* C37 witness: a user has two earnings rows, one per verified submission,
\* and a submission of the user's device has been rolled back
C37_Witness ==
  \E d \in Devices :
    /\ Cardinality(EarningsOf(d)) = 2
    /\ users[d].total_compute_credits > 0
    /\ \E o \in OpIds : ops[o].error = "Failed to submit result"

\* C38 (as claimed): at most one call of runTaskLoop is in flight or
\* scheduled at any time, and a task request is sent only while isRunning.
C38_SingleLoop ==
  /\ [](Cardinality({ l \in LoopIds : taskLoops.loop[l] # "-" }) <= 1)
  /\ [][ \A l \in LoopIds :
          (taskLoops.loop[l] # "requestTask" /\ taskLoops'.loop[l] = "requestTask")
            => taskLoops'.isRunning
      ]_vars

\* C39 (as claimed): in every state the user's claimable_balance is at
\* least 0, and the amounts of the user's claims that have not failed add up
\* to no more than the user's total_earned.
C39_BalanceNotNegative ==
  \A d \in Devices :
    /\ users[d].claimable_balance >= 0
    /\ \A c1, c2 \in DOMAIN claims :
         ( /\ c1 # c2
           /\ claims[c1].user_id = d /\ claims[c2].user_id = d
           /\ claims[c1].status # "failed" /\ claims[c2].status # "failed" )
           => claims[c1].amount + claims[c2].amount <= users[d].total_earned

\* C40 (as claimed): a claim's status is changed from 'processing' at most
\* once, and for each claim at most one token transfer is sent or its amount
\* is refunded at most once, never both.
C40_SettledOnce ==
  \A c \in 1..MaxClaims :
    /\ settled[c].updates <= 1
    /\ settled[c].transfers + settled[c].refunds <= 1

====
